---- MODULE Spec2Model ----
(***************************************************************************)
(* Room session state machine of the estimator application.                *)
(*                                                                         *)
(* The hosted realtime store is a JSON tree: a node exists iff it has at   *)
(* least one child, writing to a deep path creates the missing parents,    *)
(* and writing null (or an empty object) removes the node.  A subtree is   *)
(* modelled as a function from keys to values; the absent node is the      *)
(* function with the empty domain.                                         *)
(*                                                                         *)
(* Every "await" of an operation is one atomic step against the store, so  *)
(* operations of different clients interleave between their awaits.        *)
(***************************************************************************)
EXTENDS Integers, Sequences, FiniteSets, TLC

\* ---------------------------------------------------------------- bounds
MaxTime == 1        \* server clock values 0..MaxTime
MaxTasks == 3       \* a room is created with 1..MaxTasks tasks
MaxCompleted == 1   \* completed rounds kept in the store
MaxTimers == 2      \* pending auto-end timers of a session view
MaxBeats == 4       \* the presence clock runs to MaxBeats heartbeat intervals

\* ------------------------------------------------------------ JSON tree
Absent == << >>
Exists(node) == DOMAIN node # {}
Has(node, k) == k \in DOMAIN node
Child(node, k) == IF k \in DOMAIN node THEN node[k] ELSE Absent
Put(node, k, v) == [x \in (DOMAIN node) \cup {k} |-> IF x = k THEN v ELSE node[x]]
Del(node, k) == [x \in (DOMAIN node) \ {k} |-> node[x]]
\* set(ref/k, sub): a subtree that is empty removes the key
PutNode(node, k, sub) == IF Exists(sub) THEN Put(node, k, sub) ELSE Del(node, k)

\* ------------------------------------------------------------- universe
Users == {"u1", "u2"}
Clients == {"t1", "t2", "t3"}
\* t1 and t2 are two tabs of the same browser (same anonymous uid), t3 is
\* another user
UserOf(c) == IF c = "t3" THEN "u2" ELSE "u1"
NameOf(u) == IF u = "u1" THEN "Ann" ELSE "Bob"
TaskName == <<"A", "B", "C", "D">>
\* the task list typed into the create form: n tasks, ids in descending
\* key order so that a task's order differs from its key rank
TaskInput(n) == [i \in 1..n |-> TaskName[n + 1 - i]]
WorkstreamInputs == {<< >>, <<"be">>}
WorkstreamTitle(w) == "Backend"
Values == {5, 8}
\* ms without a heartbeat after which the organizer counts as gone
OrganizerTimeout == 6000
\* the timeout the organizer's cleanup passes to detectStaleParticipants
SweepTimeout == 6000
\* presence.ts
HEARTBEAT_INTERVAL == 2000
STALE_THRESHOLD == 6000

VARIABLES
  metadata,          \* rooms/{id}/metadata
  tasks,             \* rooms/{id}/tasks
  workstreams,       \* rooms/{id}/workstreams
  participants,      \* rooms/{id}/participants
  current_round,     \* rooms/{id}/current_round
  completed_rounds,  \* rooms/{id}/completed_rounds, in push-key order
  now,               \* the server clock
  cache,             \* per client: last metadata snapshot its listeners delivered
  inRoom,            \* per client: RoomContent is mounted
  pc,                \* per client: where its running handler is suspended
  loc,               \* per client: the locals of its running handler
  ret,               \* per client: what its last operation returned
  hooks              \* the state of the hooks of one mounted session view

store == <<metadata, tasks, workstreams, participants, current_round, completed_rounds>>
client == <<cache, inRoom, pc, loc, ret>>
vars == <<metadata, tasks, workstreams, participants, current_round,
          completed_rounds, now, hooks, cache, inRoom, pc, loc, ret>>

\* useState(null) / useState(false): nothing delivered yet.  A nullable
\* value is a sequence of length 0 (null) or 1.
\* timers counts the pending setTimeout callbacks of the auto-end effect, armed
\* is what its condition was when the effect last ran.
\* beating: the heartbeat interval of a client's FirebaseRoomProvider runs;
\* presence: where its updatePresence call is suspended; sweep: the stale ids
\* a running cleanup of the organizer has detected.
NoHooks ==
  [participants |-> << >>, estimates |-> << >>, allDone |-> FALSE, stale |-> FALSE,
   timers |-> 0, armed |-> FALSE,
   beating |-> [c \in Clients |-> FALSE], presence |-> [c \in Clients |-> "idle"],
   sweep |-> << >>]

Init ==
  /\ metadata = Absent
  /\ tasks = Absent
  /\ workstreams = Absent
  /\ participants = Absent
  /\ current_round = Absent
  /\ completed_rounds = << >>
  /\ now = 0
  /\ cache = [c \in Clients |-> Absent]
  /\ inRoom = [c \in Clients |-> FALSE]
  /\ pc = [c \in Clients |-> "idle"]
  /\ loc = [c \in Clients |-> Absent]
  /\ ret = [c \in Clients |-> "none"]
  /\ hooks = NoHooks

\* the server clock advances
Tick ==
  /\ now < MaxTime
  /\ now' = now + 1
  /\ UNCHANGED <<store, client, hooks>>

\* ------------------------------------------------------- control helpers
Goto(c, label, locals) ==
  /\ pc' = [pc EXCEPT ![c] = label]
  /\ loc' = [loc EXCEPT ![c] = locals]

Return(c, value) ==
  /\ pc' = [pc EXCEPT ![c] = "idle"]
  /\ loc' = [loc EXCEPT ![c] = Absent]
  /\ ret' = [ret EXCEPT ![c] = value]

\* updateLastActivity: set(metadata/last_activity, serverTimestamp())
updateLastActivity == metadata' = Put(metadata, "last_activity", now)

\* set(metadata/status, status)
SetStatus(status) == metadata' = Put(metadata, "status", status)

\* ------------------------------------------------------------ createRoom
WorkstreamsData(ws) ==
  [w \in {ws[i] : i \in DOMAIN ws} |->
     [id |-> w, name |-> WorkstreamTitle(w),
      order |-> (CHOOSE i \in DOMAIN ws : ws[i] = w) - 1]]

\* variant: the order counts down from the last position
TasksData_countdown(ts) ==
  [t \in {ts[i] : i \in DOMAIN ts} |->
     [id |-> t, order |-> Len(ts) - (CHOOSE i \in DOMAIN ts : ts[i] = t)]]

TasksData(ts) ==
  [t \in {ts[i] : i \in DOMAIN ts} |->
     [id |-> t, order |-> (CHOOSE i \in DOMAIN ts : ts[i] = t) - 1]]

\* set(rooms/{id}, {metadata, workstreams, tasks}): replaces the whole room
createRoom(c, ws, ts) ==
  /\ pc[c] = "idle"
  /\ metadata' = [status |-> "lobby", current_task_index |-> 0,
                  last_activity |-> now, created_at |-> now,
                  created_by |-> UserOf(c), organizer_id |-> UserOf(c)]
  /\ workstreams' = WorkstreamsData(ws)
  /\ tasks' = TasksData(ts)
  /\ participants' = Absent
  /\ current_round' = Absent
  /\ completed_rounds' = << >>
  /\ ret' = [ret EXCEPT ![c] = "void"]
  /\ UNCHANGED <<now, hooks, cache, inRoom, pc, loc>>

\* --------------------------------------------------------- subscriptions
\* onRoomMetadata: the snapshot a client's hooks hold
Snapshot(m) ==
  IF Exists(m)
    THEN [status |-> m.status, current_task_index |-> m.current_task_index,
          organizer_id |-> m.organizer_id]
    ELSE Absent

onRoomMetadata(c) ==
  /\ inRoom[c]
  /\ cache[c] # Snapshot(metadata)
  /\ cache' = [cache EXCEPT ![c] = Snapshot(metadata)]
  /\ UNCHANGED <<store, now, hooks, inRoom, pc, loc, ret>>

\* Object.values(snapshot.val()).sort((a, b) => a.order - b.order): the
\* children of a node as a list in ascending order
RECURSIVE sortedKeys(_, _)
sortedKeys(node, keys) ==
  IF keys = {} THEN << >>
  ELSE LET k == CHOOSE x \in keys : \A o \in keys : node[x].order <= node[o].order
       IN <<k>> \o sortedKeys(node, keys \ {k})

sortByOrder(node) ==
  LET s == sortedKeys(node, DOMAIN node)
  IN [i \in DOMAIN s |-> node[s[i]]]

\* onWorkstreams / onTasks: callback(sorted list), callback([]) without a node
onWorkstreams(node) == IF Exists(node) THEN sortByOrder(node) ELSE << >>
onTasks(node) == IF Exists(node) THEN sortByOrder(node) ELSE << >>

\* ------------------------------------------------------------ room view
\* RoomLayout: the loader found the caller among the participants, so
\* RoomContent mounts without the name dialog
enterRoom(c) ==
  /\ ~inRoom[c]
  /\ pc[c] = "idle"
  /\ Has(participants, UserOf(c))
  /\ inRoom' = [inRoom EXCEPT ![c] = TRUE]
  /\ UNCHANGED <<store, now, hooks, cache, pc, loc, ret>>

\* handleLeaveRoom: navigate("/"); nothing is written to the store
\* (the provider unmounts and its cleanup clears the heartbeat interval; an
\* updatePresence call in flight goes on)
handleLeaveRoom(c) ==
  /\ inRoom[c]
  /\ pc[c] = "idle"
  /\ inRoom' = [inRoom EXCEPT ![c] = FALSE]
  /\ cache' = [cache EXCEPT ![c] = Absent]
  /\ hooks' = [hooks EXCEPT !.beating[c] = FALSE]
  /\ UNCHANGED <<store, now, pc, loc, ret>>

\* setupDisconnectHandlers: the tab goes away and the store runs
\* onDisconnect(participants/{uid}).remove()
onDisconnect(c) ==
  /\ inRoom[c]
  /\ pc[c] = "idle"
  /\ participants' = Del(participants, UserOf(c))
  /\ inRoom' = [inRoom EXCEPT ![c] = FALSE]
  /\ cache' = [cache EXCEPT ![c] = Absent]
  /\ hooks' = [hooks EXCEPT !.beating[c] = FALSE, !.presence[c] = "idle",
                            !.sweep = IF Has(@, "by") /\ @.by = c THEN Absent ELSE @]
  /\ UNCHANGED <<metadata, tasks, workstreams, current_round, completed_rounds,
                 now, pc, loc, ret>>

\* The connection of a running tab drops and comes back: the store runs
\* onDisconnect(participants/{uid}).remove(), the tab and its heartbeat
\* timer live on
connectionLost(c) ==
  /\ inRoom[c]
  /\ Has(participants, UserOf(c))
  /\ participants' = Del(participants, UserOf(c))
  /\ UNCHANGED <<metadata, tasks, workstreams, current_round, completed_rounds,
                 now, hooks, client>>

\* clientLoader runs again after a submission of the user: isParticipant is
\* false, the name dialog replaces the room content inside the provider
clientLoader(c) ==
  /\ inRoom[c]
  /\ pc[c] = "idle"
  /\ ~Has(participants, UserOf(c))
  /\ inRoom' = [inRoom EXCEPT ![c] = FALSE]
  /\ cache' = [cache EXCEPT ![c] = Absent]
  /\ UNCHANGED <<store, now, hooks, pc, loc, ret>>

\* useIsOrganizer
isOrganizer(c) == Exists(cache[c]) /\ cache[c].organizer_id = UserOf(c)

\* RoomContent "Navigate based on status": the route shown follows the
\* cached status
View(c) == IF inRoom[c] /\ Exists(cache[c]) THEN cache[c].status ELSE "none"

\* -------------------------------------------------------------- joinRoom
\* clientAction "join"
join(c) ==
  /\ ~inRoom[c]
  /\ pc[c] = "idle"
  /\ Goto(c, "jr_exists", [name |-> NameOf(UserOf(c))])
  /\ ret' = [ret EXCEPT ![c] = "none"]
  /\ UNCHANGED <<store, now, hooks, cache, inRoom>>

\* const exists = await checkRoomExists(roomId); if (!exists) return false
joinRoom_exists(c) ==
  /\ pc[c] = "jr_exists"
  /\ IF Exists(metadata)
       THEN Goto(c, "jr_metadata", loc[c]) /\ UNCHANGED ret
       ELSE Return(c, "false")
  /\ UNCHANGED <<store, now, hooks, cache, inRoom>>

\* variant: the ended check is left out
sessionEnded_never(m) == FALSE

\* metadata?.status === 'ended'
sessionEnded(m) == Has(m, "status") /\ m.status = "ended"

\* if (metadata?.status === 'ended') return false
joinRoom_metadata(c) ==
  /\ pc[c] = "jr_metadata"
  /\ IF sessionEnded(metadata)
       THEN Return(c, "false")
       ELSE Goto(c, "jr_set", loc[c]) /\ UNCHANGED ret
  /\ UNCHANGED <<store, now, hooks, cache, inRoom>>

ParticipantRecord(u, name) ==
  [peer_id |-> u, name |-> name, is_organizer |-> FALSE,
   joined_at |-> now, last_heartbeat |-> now, connection_status |-> "online"]

\* await set(participantRef, {...})
joinRoom_set(c) ==
  /\ pc[c] = "jr_set"
  /\ participants' = Put(participants, UserOf(c), ParticipantRecord(UserOf(c), loc[c].name))
  /\ Goto(c, "jr_activity", loc[c])
  /\ UNCHANGED <<metadata, tasks, workstreams, current_round, completed_rounds,
                 now, hooks, cache, inRoom, ret>>

\* await updateLastActivity(roomId); return true  (the name dialog closes)
joinRoom_activity(c) ==
  /\ pc[c] = "jr_activity"
  /\ updateLastActivity
  /\ Return(c, "true")
  /\ inRoom' = [inRoom EXCEPT ![c] = TRUE]
  /\ UNCHANGED <<tasks, workstreams, participants, current_round, completed_rounds,
                 now, hooks, cache>>

\* ------------------------------------------------------ updateRoomStatus
\* await set(statusRef, status)
updateRoomStatus_set(c) ==
  /\ pc[c] = "us_status"
  /\ SetStatus(loc[c].status)
  /\ Goto(c, "us_activity", loc[c])
  /\ UNCHANGED <<tasks, workstreams, participants, current_round, completed_rounds,
                 now, hooks, cache, inRoom, ret>>

\* await updateLastActivity(roomId), then back in the caller:
\*   handleNextTask: if (!hasNext) await updateRoomStatus(roomId, "ended")
updateRoomStatus_activity(c) ==
  /\ pc[c] = "us_activity"
  /\ updateLastActivity
  /\ IF loc[c].then = "handleNextTask"
       THEN /\ Goto(c, "us_status", [status |-> "ended", then |-> "return", result |-> "false"])
            /\ ret' = [ret EXCEPT ![c] = "false"]
       ELSE Return(c, loc[c].result)
  /\ UNCHANGED <<tasks, workstreams, participants, current_round, completed_rounds,
                 now, hooks, cache, inRoom>>

\* ------------------------------------------------------------ startRound
\* onTasks: tasks sorted by order; tasks[0]
FirstTask(ts) ==
  CHOOSE t \in DOMAIN ts : \A o \in DOMAIN ts : ts[t].order <= ts[o].order

\* Lobby.handleStartEstimation: if (tasks.length > 0) startRound(roomId, tasks[0].id)
handleStartEstimation(c) ==
  /\ pc[c] = "idle"
  /\ View(c) = "lobby"
  /\ isOrganizer(c)
  /\ Exists(participants)
  /\ Exists(tasks)
  /\ Goto(c, "sr_set", [taskId |-> FirstTask(tasks), result |-> "void"])
  /\ ret' = [ret EXCEPT ![c] = "none"]
  /\ UNCHANGED <<store, now, hooks, cache, inRoom>>

\* variant: the new round keeps the estimates of the round it replaces
NewRound_keepsEstimates(taskId) ==
  PutNode([task_id |-> taskId, started_at |-> now], "estimates",
          Child(current_round, "estimates"))

\* the value startRound writes: estimates: {} is an empty node, not stored
NewRound(taskId) == [task_id |-> taskId, started_at |-> now]

\* await set(currentRoundRef, {task_id, started_at, estimates: {}});
\* then updateRoomStatus(roomId, 'active')
startRound_set(c) ==
  /\ pc[c] = "sr_set"
  /\ current_round' = NewRound(loc[c].taskId)
  /\ Goto(c, "us_status", [status |-> "active", then |-> "return", result |-> loc[c].result])
  /\ UNCHANGED <<metadata, tasks, workstreams, participants, completed_rounds,
                 now, hooks, cache, inRoom, ret>>

\* -------------------------------------------------------- submitEstimate
\* EstimationSession renders its controls only with a current task
currentTask(c) ==
  {t \in DOMAIN tasks : Exists(cache[c]) /\ tasks[t].order = cache[c].current_task_index}

SessionView(c) == View(c) = "active" /\ currentTask(c) # {}

\* with fewer than two workstreams: workstreams[0]?.id || "general"
selectedWorkstream ==
  IF Exists(workstreams) THEN CHOOSE w \in DOMAIN workstreams : TRUE ELSE "general"

\* handleEstimate -> clientAction "submit-estimate"
handleEstimate(c, value) ==
  /\ pc[c] = "idle"
  /\ SessionView(c)
  /\ Goto(c, "se_set", [workstreamId |-> selectedWorkstream, value |-> value])
  /\ ret' = [ret EXCEPT ![c] = "none"]
  /\ UNCHANGED <<store, now, hooks, cache, inRoom>>

\* handleEstimate(workstreamId, value) with the workstream tab the user
\* selected -> clientAction "submit-estimate"
handleEstimateIn(c, workstreamId, value) ==
  /\ pc[c] = "idle"
  /\ SessionView(c)
  /\ Goto(c, "se_set", [workstreamId |-> workstreamId, value |-> value])
  /\ ret' = [ret EXCEPT ![c] = "none"]
  /\ UNCHANGED <<store, now, hooks, cache, inRoom>>

\* variant: the write replaces the participant's whole entry
SetEstimate_wholeEntry(round, pid, wid, v) ==
  Put(round, "estimates",
      Put(Child(round, "estimates"), pid, [workstreams |-> (wid :> v)]))

\* set(current_round/estimates/{pid}/workstreams/{wid}, v) on a round tree
SetEstimate(round, pid, wid, v) ==
  LET es == Child(round, "estimates")
      pe == Child(es, pid)
      wm == Child(pe, "workstreams")
  IN Put(round, "estimates", Put(es, pid, Put(pe, "workstreams", Put(wm, wid, v))))

\* await set(estimateRef, {value, submitted_at: serverTimestamp()})
submitEstimate_set(c) ==
  /\ pc[c] = "se_set"
  /\ current_round' = SetEstimate(current_round, UserOf(c), loc[c].workstreamId,
                                  [value |-> loc[c].value, submitted_at |-> now])
  /\ Goto(c, "se_activity", loc[c])
  /\ UNCHANGED <<metadata, tasks, workstreams, participants, completed_rounds,
                 now, hooks, cache, inRoom, ret>>

\* await updateLastActivity(roomId)
submitEstimate_activity(c) ==
  /\ pc[c] = "se_activity"
  /\ updateLastActivity
  /\ Return(c, "void")
  /\ UNCHANGED <<tasks, workstreams, participants, current_round, completed_rounds,
                 now, hooks, cache, inRoom>>

\* --------------------------------------------------- markParticipantDone
\* handleToggleDone -> clientAction "mark-done"
handleToggleDone(c, isDone) ==
  /\ pc[c] = "idle"
  /\ SessionView(c)
  /\ Goto(c, "md_update", [isDone |-> isDone])
  /\ ret' = [ret EXCEPT ![c] = "none"]
  /\ UNCHANGED <<store, now, hooks, cache, inRoom>>

\* variant: un-marking leaves the done_at of the earlier mark in place
SetDone_keepsDoneAt(round, pid, isDone) ==
  LET es == Child(round, "estimates")
      pe == Child(es, pid)
      pd == IF isDone THEN Put(Put(pe, "is_done", TRUE), "done_at", now)
                      ELSE Put(pe, "is_done", FALSE)
  IN Put(round, "estimates", Put(es, pid, pd))

\* update(current_round/estimates/{pid}, {is_done, done_at: isDone ? now : null})
SetDone(round, pid, isDone) ==
  LET es == Child(round, "estimates")
      pe == Child(es, pid)
      pd == IF isDone THEN Put(Put(pe, "is_done", TRUE), "done_at", now)
                      ELSE Del(Put(pe, "is_done", FALSE), "done_at")
  IN Put(round, "estimates", Put(es, pid, pd))

markParticipantDone_update(c) ==
  /\ pc[c] = "md_update"
  /\ current_round' = SetDone(current_round, UserOf(c), loc[c].isDone)
  /\ Goto(c, "md_activity", loc[c])
  /\ UNCHANGED <<metadata, tasks, workstreams, participants, completed_rounds,
                 now, hooks, cache, inRoom, ret>>

markParticipantDone_activity(c) ==
  /\ pc[c] = "md_activity"
  /\ updateLastActivity
  /\ Return(c, "void")
  /\ UNCHANGED <<tasks, workstreams, participants, current_round, completed_rounds,
                 now, hooks, cache, inRoom>>

\* -------------------------------------------------------------- endRound
\* handleEndRound -> clientAction "end-round"
handleEndRound(c) ==
  /\ pc[c] = "idle"
  /\ SessionView(c)
  /\ isOrganizer(c)
  /\ Goto(c, "er_round", Absent)
  /\ ret' = [ret EXCEPT ![c] = "none"]
  /\ UNCHANGED <<store, now, hooks, cache, inRoom>>

\* variant: the activity stamp is written before the round is looked at
endRound_activityFirst(c) ==
  /\ pc[c] = "er_round"
  /\ updateLastActivity
  /\ IF Exists(current_round)
       THEN Goto(c, "er_participants", [currentRound |-> current_round]) /\ UNCHANGED ret
       ELSE Return(c, "throw")
  /\ UNCHANGED <<tasks, workstreams, participants, current_round, completed_rounds,
                 now, hooks, cache, inRoom>>

\* const currentRoundSnapshot = await get(currentRoundRef)
\* if (!currentRoundSnapshot.exists()) throw new Error('No active round to end')
endRound_getRound(c) ==
  /\ pc[c] = "er_round"
  /\ IF Exists(current_round)
       THEN Goto(c, "er_participants", [currentRound |-> current_round]) /\ UNCHANGED ret
       ELSE Return(c, "throw")
  /\ UNCHANGED <<store, now, hooks, cache, inRoom>>

\* const participants = participantsSnapshot.val() || {}
endRound_getParticipants(c) ==
  /\ pc[c] = "er_participants"
  /\ Goto(c, "er_workstreams", Put(loc[c], "participants", participants))
  /\ UNCHANGED <<store, now, hooks, cache, inRoom, ret>>

\* const workstreams = workstreamsSnapshot.val() || {}
endRound_getWorkstreams(c) ==
  /\ pc[c] = "er_workstreams"
  /\ Goto(c, "er_push", Put(loc[c], "workstreams", workstreams))
  /\ UNCHANGED <<store, now, hooks, cache, inRoom, ret>>

\* Transform estimates to include denormalized names
completedEstimates(currentRound, ps, wss) ==
  LET es == Child(currentRound, "estimates")
  IN [pid \in DOMAIN es |->
        LET wm == Child(es[pid], "workstreams")
            base == [participant_name |-> IF Has(ps, pid) THEN ps[pid].name ELSE "Unknown",
                     is_done |-> IF Has(es[pid], "is_done") THEN es[pid].is_done ELSE FALSE]
            withWs == PutNode(base, "workstreams",
                        [w \in DOMAIN wm |->
                           [value |-> wm[w].value, submitted_at |-> wm[w].submitted_at,
                            workstream_name |-> IF Has(wss, w) THEN wss[w].name ELSE "Unknown"]])
        \* done_at: estimate.done_at || null
        IN IF Has(es[pid], "done_at") /\ es[pid].done_at # 0
             THEN Put(withWs, "done_at", es[pid].done_at)
             ELSE withWs]

CompletedRound(currentRound, ps, wss) ==
  PutNode([task_id |-> currentRound.task_id, started_at |-> currentRound.started_at,
           completed_at |-> now],
          "estimates", completedEstimates(currentRound, ps, wss))

\* push() rejects a value with an undefined property: a round node that
\* holds only estimates has neither task_id nor started_at
Pushable(currentRound) == Has(currentRound, "task_id") /\ Has(currentRound, "started_at")

\* variant: the round is read again when the Completed Round is appended
endRound_push_reread(c) ==
  /\ pc[c] = "er_push"
  /\ IF Pushable(current_round)
       THEN /\ completed_rounds' = Append(completed_rounds,
                 CompletedRound(current_round, loc[c].participants, loc[c].workstreams))
            /\ Goto(c, "er_remove", Absent)
            /\ UNCHANGED ret
       ELSE /\ Return(c, "throw")
            /\ UNCHANGED completed_rounds
  /\ UNCHANGED <<metadata, tasks, workstreams, participants, current_round,
                 now, hooks, cache, inRoom>>

\* await push(completedRoundsRef, {...})
endRound_push(c) ==
  /\ pc[c] = "er_push"
  /\ IF Pushable(loc[c].currentRound)
       THEN /\ completed_rounds' = Append(completed_rounds,
                 CompletedRound(loc[c].currentRound, loc[c].participants, loc[c].workstreams))
            /\ Goto(c, "er_remove", Absent)
            /\ UNCHANGED ret
       ELSE /\ Return(c, "throw")
            /\ UNCHANGED completed_rounds
  /\ UNCHANGED <<metadata, tasks, workstreams, participants, current_round,
                 now, hooks, cache, inRoom>>

\* variant: the current round is left in place
endRound_remove_skipped(c) ==
  /\ pc[c] = "er_remove"
  /\ Goto(c, "us_status", [status |-> "results", then |-> "return", result |-> "void"])
  /\ UNCHANGED <<store, now, hooks, cache, inRoom, ret>>

\* await remove(currentRoundRef); then updateRoomStatus(roomId, 'results')
endRound_remove(c) ==
  /\ pc[c] = "er_remove"
  /\ current_round' = Absent
  /\ Goto(c, "us_status", [status |-> "results", then |-> "return", result |-> "void"])
  /\ UNCHANGED <<metadata, tasks, workstreams, participants, completed_rounds,
                 now, hooks, cache, inRoom, ret>>

\* ----------------------------------------------------- advanceToNextTask
\* Results.handleNextTask (the button shows while hasMoreTasks)
hasMoreTasks(c) == cache[c].current_task_index < Cardinality(DOMAIN tasks) - 1

handleNextTask(c) ==
  /\ pc[c] = "idle"
  /\ View(c) = "results"
  /\ isOrganizer(c)
  /\ hasMoreTasks(c)
  /\ Goto(c, "an_metadata", Absent)
  /\ ret' = [ret EXCEPT ![c] = "none"]
  /\ UNCHANGED <<store, now, hooks, cache, inRoom>>

\* const currentIndex = metadata?.current_task_index || 0
advanceToNextTask_getMetadata(c) ==
  /\ pc[c] = "an_metadata"
  /\ Goto(c, "an_tasks",
          [currentIndex |-> IF Has(metadata, "current_task_index")
                              THEN metadata.current_task_index ELSE 0])
  /\ UNCHANGED <<store, now, hooks, cache, inRoom, ret>>

\* variant: off by one
noNextTask_strict(nextIndex, taskCount) == nextIndex > taskCount

\* if (nextIndex >= taskCount)
noNextTask(nextIndex, taskCount) == nextIndex >= taskCount

\* const tasks = tasksSnapshot.val() || {}; const nextIndex = currentIndex + 1
\* if (nextIndex >= taskCount) await updateRoomStatus(roomId, 'ended'); return false
advanceToNextTask_getTasks(c) ==
  /\ pc[c] = "an_tasks"
  /\ LET nextIndex == loc[c].currentIndex + 1
         taskCount == Cardinality(DOMAIN tasks)
     IN IF noNextTask(nextIndex, taskCount)
          THEN Goto(c, "us_status", [status |-> "ended", then |-> "handleNextTask",
                                     result |-> "false"])
          ELSE Goto(c, "an_update", [nextIndex |-> nextIndex, tasks |-> tasks])
  /\ UNCHANGED <<store, now, hooks, cache, inRoom, ret>>

\* variant: the task is looked up by the index before the increment
nextTask_previous(ts, nextIndex) == {t \in DOMAIN ts : ts[t].order = nextIndex - 1}

\* Object.values(tasks).find(task => task.order === nextIndex)
nextTask(ts, nextIndex) == {t \in DOMAIN ts : ts[t].order = nextIndex}

\* await update(metadataRef, {current_task_index: nextIndex})
\* if (nextTask) startRound(roomId, nextTask.id) ... return true; else return false
advanceToNextTask_update(c) ==
  /\ pc[c] = "an_update"
  /\ metadata' = Put(metadata, "current_task_index", loc[c].nextIndex)
  /\ LET found == nextTask(loc[c].tasks, loc[c].nextIndex)
     IN IF found # {}
          THEN /\ Goto(c, "sr_set", [taskId |-> CHOOSE t \in found : TRUE, result |-> "true"])
               /\ UNCHANGED ret
          ELSE Return(c, "false")
  /\ UNCHANGED <<tasks, workstreams, participants, current_round, completed_rounds,
                 now, hooks, cache, inRoom>>

\* advanceToNextTask called from the results view, also at the last task
callAdvanceToNextTask(c) ==
  /\ pc[c] = "idle"
  /\ View(c) = "results"
  /\ isOrganizer(c)
  /\ Goto(c, "an_metadata", Absent)
  /\ ret' = [ret EXCEPT ![c] = "none"]
  /\ UNCHANGED <<store, now, hooks, cache, inRoom>>

\* Results.handleEndSession: updateRoomStatus(roomId, "ended")
handleEndSession(c) ==
  /\ pc[c] = "idle"
  /\ View(c) = "results"
  /\ isOrganizer(c)
  /\ Goto(c, "us_status", [status |-> "ended", then |-> "return", result |-> "void"])
  /\ ret' = [ret EXCEPT ![c] = "none"]
  /\ UNCHANGED <<store, now, hooks, cache, inRoom>>

\* ------------------------------------------------------------- presence
\* the clock moves on by one heartbeat interval
Pass ==
  /\ now + HEARTBEAT_INTERVAL <= MaxBeats * HEARTBEAT_INTERVAL
  /\ now' = now + HEARTBEAT_INTERVAL
  /\ UNCHANGED <<store, client, hooks>>

\* FirebaseRoomProvider effect on the room route, with the name dialog or
\* the room content inside: startHeartbeat calls updatePresence at once
FirebaseRoomProvider(c) ==
  /\ ~hooks.beating[c]
  /\ hooks.presence[c] = "idle"
  /\ hooks' = [hooks EXCEPT !.beating[c] = TRUE, !.presence[c] = "get"]
  /\ UNCHANGED <<store, now, client>>

\* setInterval(() => updatePresence(roomId, userId), interval)
startHeartbeat(c) ==
  /\ hooks.beating[c]
  /\ hooks.presence[c] = "idle"
  /\ hooks' = [hooks EXCEPT !.presence[c] = "get"]
  /\ UNCHANGED <<store, now, client>>

\* const snapshot = await get(participantRef); if (!snapshot.exists()) return
updatePresence_get(c) ==
  /\ hooks.presence[c] = "get"
  /\ hooks' = [hooks EXCEPT !.presence[c] =
                 IF Has(participants, UserOf(c)) THEN "set" ELSE "idle"]
  /\ UNCHANGED <<store, now, client>>

\* set(participants/{uid}/last_heartbeat, serverTimestamp())
heartbeatWrite(ps, u) == Put(ps, u, Put(Child(ps, u), "last_heartbeat", now))

\* await set(lastHeartbeatRef, serverTimestamp())
updatePresence_set(c) ==
  /\ hooks.presence[c] = "set"
  /\ participants' = heartbeatWrite(participants, UserOf(c))
  /\ hooks' = [hooks EXCEPT !.presence[c] = "activity"]
  /\ UNCHANGED <<metadata, tasks, workstreams, current_round, completed_rounds,
                 now, client>>

\* await set(lastActivityRef, serverTimestamp())
updatePresence_activity(c) ==
  /\ hooks.presence[c] = "activity"
  /\ updateLastActivity
  /\ hooks' = [hooks EXCEPT !.presence[c] = "idle"]
  /\ UNCHANGED <<tasks, workstreams, participants, current_round, completed_rounds,
                 now, client>>

PresenceSteps(c) ==
  \/ updatePresence_get(c)
  \/ updatePresence_set(c)
  \/ updatePresence_activity(c)

\* variant: the comparison is not strict
detectStaleParticipants_atLeast(ps, t, timeoutMs) ==
  {id \in DOMAIN ps :
     /\ Has(ps[id], "last_heartbeat")
     /\ t - ps[id].last_heartbeat >= timeoutMs}

\* detectStaleParticipants: the ids whose last_heartbeat is a number more
\* than timeoutMs before t
detectStaleParticipants(ps, t, timeoutMs) ==
  {id \in DOMAIN ps :
     /\ Has(ps[id], "last_heartbeat")
     /\ t - ps[id].last_heartbeat > timeoutMs}

\* "Stale participant cleanup (organizer only)": the interval callback awaits
\* detectStaleParticipants(roomId, 6000); if (staleIds.length > 0) ...
sweep_detect(c) ==
  /\ inRoom[c]
  /\ isOrganizer(c)
  /\ hooks.sweep = Absent
  /\ detectStaleParticipants(participants, now, SweepTimeout) # {}
  /\ hooks' = [hooks EXCEPT !.sweep =
                 [by |-> c,
                  staleIds |-> detectStaleParticipants(participants, now, SweepTimeout)]]
  /\ UNCHANGED <<store, now, client>>

\* cleanupStaleParticipants: set(participants/{id}, null) for every stale id,
\* all issued before anything is awaited
cleanupStaleParticipants ==
  /\ hooks.sweep # Absent
  /\ participants' = [u \in DOMAIN participants \ hooks.sweep.staleIds |-> participants[u]]
  /\ hooks' = [hooks EXCEPT !.sweep = Absent]
  /\ UNCHANGED <<metadata, tasks, workstreams, current_round, completed_rounds,
                 now, client>>

\* ---------------------------------------------------------- setOrganizer
\* "Check for organizer disconnect": the modal with the take-over button
\* shows to a user who is not the organizer when the organizer is missing
\* from the participants or its heartbeat is more than 6 s old
showOrganizerModal(c) ==
  /\ inRoom[c]
  /\ Exists(cache[c])
  /\ UserOf(c) # cache[c].organizer_id
  /\ IF Has(participants, cache[c].organizer_id)
       THEN /\ Has(participants[cache[c].organizer_id], "last_heartbeat")
            /\ now - participants[cache[c].organizer_id].last_heartbeat > OrganizerTimeout
       ELSE TRUE

\* setOrganizer(roomId, newOrganizerId, storePrevious) is called
setOrganizer(c, newOrganizerId, storePrevious, handler) ==
  /\ pc[c] = "idle"
  /\ Goto(c, IF storePrevious THEN "so_get" ELSE "so_update",
          [newOrganizerId |-> newOrganizerId, storePrevious |-> storePrevious,
           handler |-> handler])
  /\ ret' = [ret EXCEPT ![c] = "none"]
  /\ UNCHANGED <<store, now, hooks, cache, inRoom>>

\* handleOvertakeOrganizer: await setOrganizer(roomId, userId, true)
handleOvertakeOrganizer(c) ==
  /\ showOrganizerModal(c)
  /\ setOrganizer(c, UserOf(c), TRUE, TRUE)

\* const currentOrganizerId = (await get(metadataRef)).val()?.organizer_id
setOrganizer_get(c) ==
  /\ pc[c] = "so_get"
  /\ Goto(c, "so_update",
          IF Has(metadata, "organizer_id")
            THEN Put(loc[c], "currentOrganizerId", metadata.organizer_id)
            ELSE loc[c])
  /\ UNCHANGED <<store, now, hooks, cache, inRoom, ret>>

\* update(metadataRef, {organizer_id, previous_organizer_id?})
organizerUpdate(m, l) ==
  IF l.storePrevious
    THEN Put(Put(m, "organizer_id", l.newOrganizerId),
             "previous_organizer_id", l.currentOrganizerId)
    ELSE Put(m, "organizer_id", l.newOrganizerId)

\* await update(metadataRef, {...}); an undefined previous_organizer_id
\* makes update() throw
setOrganizer_update(c) ==
  /\ pc[c] = "so_update"
  /\ IF loc[c].storePrevious /\ ~Has(loc[c], "currentOrganizerId")
       THEN Return(c, "throw") /\ UNCHANGED metadata
       ELSE /\ metadata' = organizerUpdate(metadata, loc[c])
            /\ Goto(c, "so_activity", loc[c])
            /\ UNCHANGED ret
  /\ UNCHANGED <<tasks, workstreams, participants, current_round, completed_rounds,
                 now, hooks, cache, inRoom>>

\* await updateLastActivity(roomId); back in handleOvertakeOrganizer:
\* await updateParticipant(roomId, {is_organizer: true})
setOrganizer_activity(c) ==
  /\ pc[c] = "so_activity"
  /\ updateLastActivity
  /\ IF loc[c].handler
       THEN Goto(c, "up_update", loc[c]) /\ UNCHANGED ret
       ELSE Return(c, "void")
  /\ UNCHANGED <<tasks, workstreams, participants, current_round, completed_rounds,
                 now, hooks, cache, inRoom>>

\* updateParticipant: update(participants/{uid}, {is_organizer: true})
updateParticipant(c) ==
  /\ pc[c] = "up_update"
  /\ participants' = Put(participants, UserOf(c),
                         Put(Child(participants, UserOf(c)), "is_organizer", TRUE))
  /\ Return(c, "void")
  /\ UNCHANGED <<metadata, tasks, workstreams, current_round, completed_rounds,
                 now, hooks, cache, inRoom>>

OrganizerSteps(c) ==
  \/ setOrganizer_get(c)
  \/ setOrganizer_update(c)
  \/ setOrganizer_activity(c)
  \/ updateParticipant(c)

\* ----------------------------------------------------------------- hooks
\* Object.values of a node keyed by participant id lists in key order
UserOrder == <<"u1", "u2">>

\* onParticipants: callback(Object.values(participantsData)), [] when absent
participantList(ps) ==
  LET keys == SelectSeq(UserOrder, LAMBDA u : Has(ps, u))
  IN [i \in DOMAIN keys |-> ps[keys[i]]]

\* onCurrentRound: estimates[participantId] = {workstreams: est.workstreams || {},
\* is_done: est.is_done || false, done_at: est.done_at || undefined}
roundEstimates(round) ==
  LET es == Child(round, "estimates")
  IN [pid \in DOMAIN es |->
        LET base == [workstreams |-> Child(es[pid], "workstreams"),
                     is_done |-> IF Has(es[pid], "is_done") THEN es[pid].is_done ELSE FALSE]
        IN IF Has(es[pid], "done_at") /\ es[pid].done_at # 0
             THEN Put(base, "done_at", es[pid].done_at) ELSE base]

\* useEstimates: setEstimates(round?.estimates || null)
useEstimates(round) == IF Exists(round) THEN <<roundEstimates(round)>> ELSE << >>

\* useParticipants: onParticipants(roomId, setParticipants)
onParticipants ==
  /\ hooks.participants # <<participantList(participants)>>
  /\ hooks' = [hooks EXCEPT !.participants = <<participantList(participants)>>,
                            !.stale = TRUE]
  /\ UNCHANGED <<store, now, client>>

\* useEstimates: onCurrentRound(roomId, round => setEstimates(...))
onCurrentRound ==
  /\ hooks.estimates # useEstimates(current_round)
  /\ hooks' = [hooks EXCEPT !.estimates = useEstimates(current_round), !.stale = TRUE]
  /\ UNCHANGED <<store, now, client>>

\* variant: no check for an empty participant list
allParticipantsDone_vacuous(ps, es) ==
  IF es = << >> \/ ps = << >>
    THEN FALSE
    ELSE \A i \in DOMAIN ps[1] :
           LET participantId == IF Has(ps[1][i], "peer_id") THEN ps[1][i].peer_id
                                                            ELSE "undefined"
           IN Has(es[1], participantId) /\ es[1][participantId].is_done = TRUE

\* the body of the effect of useAllParticipantsDone
allParticipantsDone(ps, es) ==
  IF es = << >> \/ ps = << >> \/ Len(ps[1]) = 0
    THEN FALSE
    ELSE \A i \in DOMAIN ps[1] :
           LET participantId == IF Has(ps[1][i], "peer_id") THEN ps[1][i].peer_id
                                                            ELSE "undefined"
           IN Has(es[1], participantId) /\ es[1][participantId].is_done = TRUE

\* useEffect(..., [participants, estimates]): setAllDone(...)
useAllParticipantsDone ==
  /\ hooks.stale
  /\ hooks' = [hooks EXCEPT !.allDone = allParticipantsDone(hooks.participants, hooks.estimates),
                            !.stale = FALSE]
  /\ UNCHANGED <<store, now, client>>

\* ---------------------------------------------------------- auto-end effect
\* The submissions of one session view: submit() does not wait for the
\* action of the submission before it, so the view of t1 can have two
\* actions in flight; t2 then is the second of them.
Slots == {"t1", "t2"}

\* a clientAction of the session route is running in slot s
submitting(s) ==
  \/ pc[s] \in {"se_set", "se_activity", "md_update", "md_activity", "er_round",
                "er_participants", "er_workstreams", "er_push", "er_remove"}
  \/ pc[s] \in {"us_status", "us_activity"} /\ loc[s].status = "results"

\* variant: the navigation never leaves the submitting state
isSubmitting_always == TRUE

\* navigation.state === "submitting"
isSubmitting == \E s \in Slots : submitting(s)

\* variant: the effect never finds its condition true
autoEndDue_never == FALSE

\* if (allDone && isOrganizer && !isSubmitting), in the mounted session route
autoEndDue ==
  /\ View("t1") = "active"
  /\ hooks.allDone
  /\ isOrganizer("t1")
  /\ ~isSubmitting

\* useEffect(..., [allDone, isOrganizer, isSubmitting, submit]): the effect
\* runs when a dependency changed and then starts a timer that nothing clears
autoEndEffect ==
  /\ hooks.armed # autoEndDue
  /\ autoEndDue => hooks.timers < MaxTimers
  /\ hooks' = [hooks EXCEPT !.armed = autoEndDue,
                            !.timers = IF autoEndDue THEN @ + 1 ELSE @]
  /\ UNCHANGED <<store, now, client>>

freeSlot == IF pc["t1"] = "idle" THEN "t1" ELSE "t2"

\* setTimeout(() => submit({_action: "end-round"}), 500) fires: the
\* clientAction calls endRound whatever the view shows by now
autoEndTimer ==
  /\ hooks.timers > 0
  /\ pc[freeSlot] = "idle"
  /\ hooks' = [hooks EXCEPT !.timers = @ - 1]
  /\ Goto(freeSlot, "er_round", Absent)
  /\ ret' = [ret EXCEPT ![freeSlot] = "none"]
  /\ UNCHANGED <<store, now, cache, inRoom>>

\* the listeners, hooks and effects of the view of t1 have caught up with
\* the store: the events of a write and the renders they cause need no
\* round trip, so they are over before the next awaited call returns
rendered ==
  /\ cache["t1"] = Snapshot(metadata)
  /\ hooks.participants = <<participantList(participants)>>
  /\ hooks.estimates = useEstimates(current_round)
  /\ ~hooks.stale
  /\ hooks.armed = autoEndDue \/ hooks.timers = MaxTimers

\* --------------------------------------------------------- specifications
\* steps of the handlers a client may have in flight
JoinSteps(c) ==
  \/ joinRoom_exists(c)
  \/ joinRoom_metadata(c)
  \/ joinRoom_set(c)
  \/ joinRoom_activity(c)

StatusSteps(c) ==
  \/ startRound_set(c)
  \/ updateRoomStatus_set(c)
  \/ updateRoomStatus_activity(c)

EndRoundSteps(c) ==
  \/ endRound_getRound(c)
  \/ endRound_getParticipants(c)
  \/ endRound_getWorkstreams(c)
  \/ endRound_push(c)
  \/ endRound_remove(c)

AdvanceSteps(c) ==
  \/ advanceToNextTask_getMetadata(c)
  \/ advanceToNextTask_getTasks(c)
  \/ advanceToNextTask_update(c)

EstimateSteps(c) ==
  \/ submitEstimate_set(c)
  \/ submitEstimate_activity(c)
  \/ markParticipantDone_update(c)
  \/ markParticipantDone_activity(c)

\* endRound calls that may still push a completed round
Pushing == {c \in Clients : pc[c] \in {"er_round", "er_participants", "er_workstreams", "er_push"}}

\* end-round is submitted while fewer than MaxCompleted rounds are completed
\* or about to be
EndRound(c) ==
  /\ Len(completed_rounds) + Cardinality(Pushing) < MaxCompleted
  /\ handleEndRound(c)

\* Spec: the round lifecycle driven from the lobby, session and results
\* views of two tabs of the organizer; the room code is fresh
Organizers == {"t1", "t2"}

CreateRoom ==
  \E c \in Organizers, n \in 1..MaxTasks :
     /\ ~Exists(metadata)
     /\ createRoom(c, <<"be">>, TaskInput(n))

Next ==
  \/ CreateRoom
  \/ \E c \in Organizers :
       \/ onRoomMetadata(c)
       \/ enterRoom(c)
       \/ join(c)
       \/ JoinSteps(c)
       \/ handleStartEstimation(c)
       \/ EndRound(c)
       \/ handleNextTask(c)
       \/ handleEndSession(c)
       \/ StatusSteps(c)
       \/ EndRoundSteps(c)
       \/ AdvanceSteps(c)

Spec == Init /\ [][Next]_vars

\* SpecRound: one round with its estimates under a running clock, from the
\* lobby of a room that the organizer (t1) and another participant (t3)
\* have joined
RoundClients == {"t1", "t3"}
Vote(c) == IF c = "t1" THEN 5 ELSE 8

Joined(u) ==
  [peer_id |-> u, name |-> NameOf(u), is_organizer |-> FALSE,
   joined_at |-> 0, last_heartbeat |-> 0, connection_status |-> "online"]

Lobby(u) ==
  [status |-> "lobby", current_task_index |-> 0, last_activity |-> 0,
   created_at |-> 0, created_by |-> u, organizer_id |-> u]

InitRound ==
  /\ metadata = Lobby("u1")
  /\ tasks = TasksData(TaskInput(1))
  /\ workstreams \in {WorkstreamsData(ws) : ws \in WorkstreamInputs}
  /\ participants = [u \in Users |-> Joined(u)]
  /\ current_round = Absent
  /\ completed_rounds = << >>
  /\ now = 0
  /\ cache = [c \in Clients |-> IF c \in RoundClients THEN Snapshot(metadata) ELSE Absent]
  /\ inRoom = [c \in Clients |-> c \in RoundClients]
  /\ pc = [c \in Clients |-> "idle"]
  /\ loc = [c \in Clients |-> Absent]
  /\ ret = [c \in Clients |-> "none"]
  /\ hooks = NoHooks

NextRound ==
  \/ Tick
  \/ onDisconnect("t3")
  \/ handleStartEstimation("t1")
  \/ handleEndRound("t1")
  \/ handleEstimate("t1", Vote("t1"))
  \/ handleEstimate("t3", Vote("t3"))
  \/ handleToggleDone("t3", TRUE)
  \/ \E c \in RoundClients :
       \/ onRoomMetadata(c)
       \/ StatusSteps(c)
       \/ EstimateSteps(c)
       \/ EndRoundSteps(c)

SpecRound == InitRound /\ [][NextRound]_vars

\* SpecJoin: joining a room that is missing, open or ended, under a running
\* clock; t1 is the organizer and drives the room to its end
JoinClients == {"t1", "t3"}

CreateRoomJoin ==
  /\ ~Exists(metadata)
  /\ createRoom("t1", <<"be">>, TaskInput(1))

NextJoin ==
  \/ CreateRoomJoin
  \/ Tick
  \/ handleLeaveRoom("t3")
  \/ handleStartEstimation("t1")
  \/ handleEndRound("t1")
  \/ handleEndSession("t1")
  \/ \E c \in JoinClients :
       \/ onRoomMetadata(c)
       \/ join(c)
       \/ JoinSteps(c)
       \/ StatusSteps(c)
       \/ EndRoundSteps(c)

SpecJoin == Init /\ [][NextJoin]_vars

\* SpecCollision: two users whose create forms drew the same room code
CollisionClients == {"t1", "t3"}

NextCollision ==
  \E c \in CollisionClients :
     \/ \E n \in 1..MaxTasks : createRoom(c, <<"be">>, TaskInput(n))
     \/ onRoomMetadata(c)
     \/ join(c)
     \/ JoinSteps(c)
     \/ handleStartEstimation(c)
     \/ EndRound(c)
     \/ StatusSteps(c)
     \/ EndRoundSteps(c)

SpecCollision == Init /\ [][NextCollision]_vars

\* SpecHooks: the hooks of a session view against the participants and the
\* round of the store, drawn from the shapes the operations can write
HeartbeatOnly == [last_heartbeat |-> 0]
ParticipantInputs ==
  UNION {[S -> {"joined", "heartbeat"}] : S \in SUBSET Users}
ParticipantsData(f) ==
  [u \in DOMAIN f |-> IF f[u] = "joined" THEN Joined(u) ELSE HeartbeatOnly]

EstimateInputs ==
  {[is_done |-> FALSE],
   [is_done |-> TRUE, done_at |-> 1],
   [workstreams |-> [general |-> [value |-> 5, submitted_at |-> 1]]]}
EstimatesInputs == UNION {[S -> EstimateInputs] : S \in SUBSET Users}
RoundInputs ==
  {Absent}
    \cup {PutNode([task_id |-> "A", started_at |-> 0], "estimates", es) : es \in EstimatesInputs}
    \cup {[estimates |-> es] : es \in EstimatesInputs \ {Absent}}

InitHooks ==
  /\ metadata = [Lobby("u1") EXCEPT !.status = "active"]
  /\ tasks = TasksData(TaskInput(1))
  /\ workstreams = Absent
  /\ participants \in {ParticipantsData(f) : f \in ParticipantInputs}
  /\ current_round \in RoundInputs
  /\ completed_rounds = << >>
  /\ now = 1
  /\ cache = [c \in Clients |-> Absent]
  /\ inRoom = [c \in Clients |-> FALSE]
  /\ pc = [c \in Clients |-> "idle"]
  /\ loc = [c \in Clients |-> Absent]
  /\ ret = [c \in Clients |-> "none"]
  /\ hooks = NoHooks

NextHooks ==
  \/ onParticipants
  \/ onCurrentRound
  \/ useAllParticipantsDone

SpecHooks == InitHooks /\ [][NextHooks]_vars

\* SpecEstimate: the estimates of one running round over two workstreams
\* under a running clock; t1 estimates either workstream and toggles done
\* both ways, t3 estimates the backend and marks itself done
EstimateClients == {"t1", "t3"}
TwoWorkstreams == <<"fe", "be">>

InitEstimate ==
  /\ metadata = [Lobby("u1") EXCEPT !.status = "active"]
  /\ tasks = TasksData(TaskInput(1))
  /\ workstreams = WorkstreamsData(TwoWorkstreams)
  /\ participants = [u \in Users |-> Joined(u)]
  /\ current_round = [task_id |-> "A", started_at |-> 0]
  /\ completed_rounds = << >>
  /\ now = 0
  /\ cache = [c \in Clients |-> IF c \in EstimateClients THEN Snapshot(metadata) ELSE Absent]
  /\ inRoom = [c \in Clients |-> c \in EstimateClients]
  /\ pc = [c \in Clients |-> "idle"]
  /\ loc = [c \in Clients |-> Absent]
  /\ ret = [c \in Clients |-> "none"]
  /\ hooks = NoHooks

NextEstimate ==
  \/ Tick
  \/ \E w \in DOMAIN workstreams, v \in Values : handleEstimateIn("t1", w, v)
  \/ \E isDone \in BOOLEAN : handleToggleDone("t1", isDone)
  \/ handleEstimateIn("t3", "be", Vote("t3"))
  \/ handleToggleDone("t3", TRUE)
  \/ \E c \in EstimateClients : EstimateSteps(c)

SpecEstimate == InitEstimate /\ [][NextEstimate]_vars

\* SpecCreate: rooms created from the create form with the workstreams and
\* tasks in any typed order, over no room or over an earlier one, and then
\* joined
CreateClients == {"t1", "t3"}
WorkstreamOrders == {<< >>, <<"fe", "be">>, <<"be", "fe">>}

NextCreate ==
  \/ Tick
  \/ \E c \in CreateClients :
       \/ \E ws \in WorkstreamOrders, n \in 1..MaxTasks : createRoom(c, ws, TaskInput(n))
       \/ join(c)
       \/ JoinSteps(c)
       \/ onRoomMetadata(c)

SpecCreate == Init /\ [][NextCreate]_vars

\* SpecFlow: the whole session of one organizer view (t1) and one other
\* participant (t3): the first round is started from the lobby, in each
\* round every participant estimates once and then marks itself done, the
\* auto-end effect closes the round, and advanceToNextTask follows
FlowClients == {"t1", "t3"}

InitFlow ==
  /\ metadata = Lobby("u1")
  /\ \E n \in 1..MaxTasks : tasks = TasksData(TaskInput(n))
  /\ workstreams = WorkstreamsData(<<"be">>)
  /\ participants = [u \in Users |-> Joined(u)]
  /\ current_round = Absent
  /\ completed_rounds = << >>
  /\ now = 1
  /\ cache = [c \in Clients |-> IF c \in FlowClients THEN Snapshot(metadata) ELSE Absent]
  /\ inRoom = [c \in Clients |-> c \in FlowClients]
  /\ pc = [c \in Clients |-> "idle"]
  /\ loc = [c \in Clients |-> Absent]
  /\ ret = [c \in Clients |-> "none"]
  /\ hooks = NoHooks

\* the entry of c's user in the running round
myEstimate(c) == Child(Child(current_round, "estimates"), UserOf(c))

\* a participant estimates once in a round
flowEstimate(c) ==
  /\ Has(current_round, "task_id")
  /\ ~Has(myEstimate(c), "workstreams")
  /\ handleEstimate(c, Vote(c))

\* and marks itself done once it has estimated
flowDone(c) ==
  /\ Has(myEstimate(c), "workstreams")
  /\ ~Has(myEstimate(c), "is_done")
  /\ handleToggleDone(c, TRUE)

NextFlow ==
  \/ handleStartEstimation("t1")
  \/ callAdvanceToNextTask("t1")
  \/ \E c \in FlowClients : flowEstimate(c) \/ flowDone(c) \/ onRoomMetadata(c)
  \/ EstimateSteps("t3")
  \/ onParticipants
  \/ onCurrentRound
  \/ useAllParticipantsDone
  \/ autoEndEffect
  \/ autoEndTimer
  \/ /\ rendered
     /\ \/ EstimateSteps("t1")
        \/ EndRoundSteps("t1")
        \/ StatusSteps("t1")
        \/ AdvanceSteps("t1")

SpecFlow == InitFlow /\ [][NextFlow]_vars /\ WF_vars(NextFlow)

\* SpecOrganizer: the user who created the room (u0) has gone; t1 and t3
\* are offered to take over, t1 also calls setOrganizer without
\* storePrevious, and t3 may disconnect
OrganizerClients == {"t1", "t3"}

InitOrganizer ==
  /\ metadata = Lobby("u0")
  /\ tasks = TasksData(TaskInput(1))
  /\ workstreams = Absent
  /\ participants = [u \in Users |-> Joined(u)]
  /\ current_round = Absent
  /\ completed_rounds = << >>
  /\ now = 0
  /\ cache = [c \in Clients |-> IF c \in OrganizerClients THEN Snapshot(metadata) ELSE Absent]
  /\ inRoom = [c \in Clients |-> c \in OrganizerClients]
  /\ pc = [c \in Clients |-> "idle"]
  /\ loc = [c \in Clients |-> Absent]
  /\ ret = [c \in Clients |-> "none"]
  /\ hooks = NoHooks

NextOrganizer ==
  \/ Tick
  \/ onDisconnect("t3")
  \/ setOrganizer("t1", UserOf("t1"), FALSE, FALSE)
  \/ \E c \in OrganizerClients :
       \/ onRoomMetadata(c)
       \/ handleOvertakeOrganizer(c)
       \/ OrganizerSteps(c)

SpecOrganizer == InitOrganizer /\ [][NextOrganizer]_vars

\* SpecPresence: heartbeats against removals.  The organizer (t1) has
\* joined and runs its heartbeat and the cleanup; t3 opens the room, joins,
\* leaves, comes back or disconnects
PresenceClients == {"t1", "t3"}

InitPresence ==
  /\ metadata = Lobby("u1")
  /\ tasks = TasksData(TaskInput(1))
  /\ workstreams = Absent
  /\ participants = [u \in {"u1"} |-> Joined(u)]
  /\ current_round = Absent
  /\ completed_rounds = << >>
  /\ now = 0
  /\ cache = [c \in Clients |-> IF c = "t1" THEN Snapshot(metadata) ELSE Absent]
  /\ inRoom = [c \in Clients |-> c = "t1"]
  /\ pc = [c \in Clients |-> "idle"]
  /\ loc = [c \in Clients |-> Absent]
  /\ ret = [c \in Clients |-> "none"]
  /\ hooks = [NoHooks EXCEPT !.beating["t1"] = TRUE]

NextPresence ==
  \/ Pass
  \/ FirebaseRoomProvider("t3")
  \/ hooks.beating["t3"] /\ join("t3")
  \/ hooks.beating["t3"] /\ enterRoom("t3")
  \/ JoinSteps("t3")
  \/ handleLeaveRoom("t3")
  \/ onDisconnect("t3")
  \/ sweep_detect("t1")
  \/ cleanupStaleParticipants
  \/ \E c \in PresenceClients :
       \/ startHeartbeat(c)
       \/ PresenceSteps(c)
       \/ onRoomMetadata(c)

SpecPresence == InitPresence /\ [][NextPresence]_vars

\* detectStaleParticipants as a function of the participants node, the clock
\* and the threshold: the inputs are drawn in the initial state.  A record
\* carries a last_heartbeat of a given age, or none at all (a record that
\* updateParticipant re-created holds only is_organizer)
Ages == {STALE_THRESHOLD + 1000, STALE_THRESHOLD, STALE_THRESHOLD \div 2}
Thresholds == {STALE_THRESHOLD, STALE_THRESHOLD \div 2}
StaleNows == {STALE_THRESHOLD + 1000, STALE_THRESHOLD + 2000}
StaleRecord(u, numeric, age, t) ==
  IF numeric THEN [Joined(u) EXCEPT !.last_heartbeat = t - age]
  ELSE [is_organizer |-> TRUE]

InitStale ==
  /\ metadata = Lobby("u1")
  /\ tasks = TasksData(TaskInput(1))
  /\ workstreams = Absent
  /\ now \in StaleNows
  /\ \E present \in SUBSET Users :
       \E numeric \in SUBSET present :
         \E age \in [present -> Ages] :
           participants =
             [u \in present |-> StaleRecord(u, u \in numeric, age[u], now)]
  /\ current_round = Absent
  /\ completed_rounds = << >>
  /\ cache = [c \in Clients |-> IF c = "t1" THEN Snapshot(metadata) ELSE Absent]
  /\ inRoom = [c \in Clients |-> c = "t1"]
  /\ pc = [c \in Clients |-> "idle"]
  /\ loc = [c \in Clients |-> Absent]
  /\ ret = [c \in Clients |-> "none"]
  /\ hooks = NoHooks

\* const staleIds = await detectStaleParticipants(roomId, timeoutMs)
detectStale(c, timeoutMs) ==
  /\ hooks.sweep = Absent
  /\ hooks' = [hooks EXCEPT !.sweep =
                 [by |-> c, timeoutMs |-> timeoutMs,
                  staleIds |-> detectStaleParticipants(participants, now, timeoutMs)]]
  /\ UNCHANGED <<store, now, client>>

NextStale ==
  \/ \E timeoutMs \in Thresholds : detectStale("t1", timeoutMs)
  \/ cleanupStaleParticipants

SpecStale == InitStale /\ [][NextStale]_vars

\* SpecLeave: the organizer (t1) and a participant (t3) are in the room with
\* their heartbeats running; either one leaves the room or loses its tab,
\* time passes, and whoever is organizer in its own view runs the cleanup.
\* A presence call takes far less than a heartbeat interval, so the clock
\* moves on between the calls.  A client stops early enough for its last
\* heartbeat to become stale before the clock runs out
LeaveClients == {"t1", "t3"}

InitLeave ==
  /\ metadata = Lobby("u1")
  /\ tasks = TasksData(TaskInput(1))
  /\ workstreams = Absent
  /\ participants = [u \in Users |-> Joined(u)]
  /\ current_round = Absent
  /\ completed_rounds = << >>
  /\ now = 0
  /\ cache = [c \in Clients |-> IF c \in LeaveClients THEN Snapshot(metadata) ELSE Absent]
  /\ inRoom = [c \in Clients |-> c \in LeaveClients]
  /\ pc = [c \in Clients |-> "idle"]
  /\ loc = [c \in Clients |-> Absent]
  /\ ret = [c \in Clients |-> "none"]
  /\ hooks = [NoHooks EXCEPT !.beating = [c \in Clients |-> c \in LeaveClients]]

Quiet == \A c \in Clients : hooks.presence[c] = "idle"
CanGoStale == now + STALE_THRESHOLD + HEARTBEAT_INTERVAL <= MaxBeats * HEARTBEAT_INTERVAL

NextLeave ==
  \/ Quiet /\ Pass
  \/ cleanupStaleParticipants
  \/ \E c \in LeaveClients :
       \/ CanGoStale /\ handleLeaveRoom(c)
       \/ CanGoStale /\ onDisconnect(c)
       \/ startHeartbeat(c)
       \/ PresenceSteps(c)
       \/ sweep_detect(c)
       \/ onRoomMetadata(c)
       \/ handleOvertakeOrganizer(c)
       \/ OrganizerSteps(c)

\* timers fire, awaited calls return and listeners deliver; a heartbeat
\* runs once per interval, so the calls cannot hold the clock back for ever;
\* nobody is bound to leave, to close a tab or to press the take-over button
FairLeave ==
  /\ SF_vars(Quiet /\ Pass)
  /\ WF_vars(cleanupStaleParticipants)
  /\ \A c \in LeaveClients :
       /\ WF_vars(startHeartbeat(c))
       /\ WF_vars(PresenceSteps(c))
       /\ WF_vars(sweep_detect(c))
       /\ WF_vars(onRoomMetadata(c))
       /\ WF_vars(OrganizerSteps(c))

SpecLeave == InitLeave /\ [][NextLeave]_vars /\ FairLeave

\* ------------------------------------------------------------- room codes
\* A string is the sequence of its characters
ROOM_CODE_ALPHABET ==
  <<"1", "2", "3", "4", "5", "6", "7", "8", "9",
    "A", "B", "C", "D", "E", "F", "G", "H", "J", "K", "L", "M", "N",
    "P", "Q", "R", "S", "T", "U", "V", "W", "X", "Y", "Z">>
ROOM_CODE_LENGTH == 8

\* ROOM_CODE_ALPHABET.includes(char)
includes(alphabet, char) == \E i \in 1..Len(alphabet) : alphabet[i] = char

\* variant: the length is not looked at
isValidRoomCode_anyLength(code) ==
  IF code = << >> THEN FALSE
  ELSE \A i \in 1..Len(code) : includes(ROOM_CODE_ALPHABET, code[i])

\* isValidRoomCode: false for the empty string and for any other length than
\* ROOM_CODE_LENGTH, else every character is in the alphabet
isValidRoomCode(code) ==
  IF code = << >> THEN FALSE
  ELSE IF Len(code) # ROOM_CODE_LENGTH THEN FALSE
  ELSE \A i \in 1..Len(code) : includes(ROOM_CODE_ALPHABET, code[i])

\* parsedCode of the join form, as parseRoomCode hands it on (no white
\* space, upper case): an alphabet character, characters left out of the
\* alphabet, and L; one character short, long enough or one too many
TypedChars == {"Z", "L", "0", "I"}
TypedCodes ==
  UNION {[1..n -> TypedChars] :
           n \in {ROOM_CODE_LENGTH - 1, ROOM_CODE_LENGTH, ROOM_CODE_LENGTH + 1}}
\* the positions of the alphabet the generator is seen to draw: the first,
\* the last and L
DrawnPositions == {1, 20, Len(ROOM_CODE_ALPHABET)}

\* t1 has a code in the join form of the home page, or is about to submit
\* the create form
InitCode ==
  /\ metadata = Absent
  /\ tasks = Absent
  /\ workstreams = Absent
  /\ participants = Absent
  /\ current_round = Absent
  /\ completed_rounds = << >>
  /\ now = 0
  /\ cache = [c \in Clients |-> Absent]
  /\ inRoom = [c \in Clients |-> FALSE]
  /\ pc = [c \in Clients |-> "idle"]
  /\ ret = [c \in Clients |-> "none"]
  /\ hooks = NoHooks
  /\ \/ \E code \in TypedCodes :
          loc = [c \in Clients |-> IF c = "t1" THEN [roomCode |-> code] ELSE Absent]
     \/ loc = [c \in Clients |-> Absent]

\* handleJoinRoom: if (!isValidRoomCode(parsedCode)) setError(...) else
\* setError("") and navigate; roomCode holds parsedCode
handleJoinRoom(c) ==
  /\ Has(loc[c], "roomCode")
  /\ ~Has(loc[c], "error")
  /\ loc' = [loc EXCEPT ![c] = Put(@, "error", ~isValidRoomCode(loc[c].roomCode))]
  /\ UNCHANGED <<store, now, hooks, cache, inRoom, pc, ret>>

\* const roomCode = createRoomCode(): customAlphabet(ROOM_CODE_ALPHABET,
\* ROOM_CODE_LENGTH) draws ROOM_CODE_LENGTH characters of the alphabet
createRoomCode(c) ==
  /\ loc[c] = Absent
  /\ loc' = [loc EXCEPT ![c] = [generated |-> << >>]]
  /\ UNCHANGED <<store, now, hooks, cache, inRoom, pc, ret>>

generateRoomCode(c) ==
  /\ Has(loc[c], "generated")
  /\ Len(loc[c].generated) < ROOM_CODE_LENGTH
  /\ \E i \in DrawnPositions :
       loc' = [loc EXCEPT ![c].generated = Append(@, ROOM_CODE_ALPHABET[i])]
  /\ UNCHANGED <<store, now, hooks, cache, inRoom, pc, ret>>

NextCode ==
  \/ handleJoinRoom("t1")
  \/ createRoomCode("t1")
  \/ generateRoomCode("t1")

SpecCode == InitCode /\ [][NextCode]_vars

\* SpecAutoEnd: one round under one organizer view (t1, with its two
\* submission slots) and one other participant (t3).  Everybody estimates,
\* t1 marks itself done once, t3 marks and un-marks itself at will, the
\* auto-end effect arms its timers and the organizer may press End Round
\* while nothing is being submitted
InitAutoEnd ==
  /\ InitFlow
  /\ Cardinality(DOMAIN tasks) = 1

\* handleToggleDone: mark-done with isDone = !isDone of the own entry; the
\* button is disabled without an estimate
toggleDone(c) ==
  /\ Has(myEstimate(c), "workstreams")
  /\ handleToggleDone(c, ~(Has(myEstimate(c), "is_done") /\ myEstimate(c).is_done))

NextAutoEnd ==
  \/ handleStartEstimation("t1")
  \/ \E c \in FlowClients : flowEstimate(c) \/ onRoomMetadata(c)
  \/ ~isSubmitting /\ flowDone("t1")
  \/ toggleDone("t3")
  \/ EstimateSteps("t3")
  \/ onParticipants
  \/ onCurrentRound
  \/ useAllParticipantsDone
  \/ autoEndEffect
  \/ autoEndTimer
  \/ ~isSubmitting /\ handleEndRound("t1")
  \/ /\ rendered
     /\ \E s \in Slots :
          \/ EstimateSteps(s)
          \/ EndRoundSteps(s)
          \/ StatusSteps(s)

SpecAutoEnd == InitAutoEnd /\ [][NextAutoEnd]_vars

\* SpecEndRace: two tabs of the organizer show the session view of a started
\* round (with any estimates in it) and each of them calls endRound once
RaceClients == {"t1", "t2"}
StartedRounds ==
  {PutNode([task_id |-> "A", started_at |-> 0], "estimates", es) : es \in EstimatesInputs}

InitEndRace ==
  /\ metadata = [Lobby("u1") EXCEPT !.status = "active"]
  /\ tasks = TasksData(TaskInput(1))
  /\ workstreams = Absent
  /\ participants = [u \in Users |-> Joined(u)]
  /\ current_round \in StartedRounds
  /\ completed_rounds = << >>
  /\ now = 1
  /\ cache = [c \in Clients |-> IF c \in RaceClients THEN Snapshot(metadata) ELSE Absent]
  /\ inRoom = [c \in Clients |-> c \in RaceClients]
  /\ pc = [c \in Clients |-> "idle"]
  /\ loc = [c \in Clients |-> Absent]
  /\ ret = [c \in Clients |-> "none"]
  /\ hooks = NoHooks

NextEndRace ==
  \E c \in RaceClients :
    \/ ret[c] = "none" /\ handleEndRound(c)
    \/ onRoomMetadata(c)
    \/ EndRoundSteps(c)
    \/ updateRoomStatus_set(c)
    \/ updateRoomStatus_activity(c)

SpecEndRace == InitEndRace /\ [][NextEndRace]_vars

\* SpecReconnect: the organizer (t1) and a participant (t3) are in the room
\* with their heartbeats running; the connection of t3 may drop for a
\* moment, the cleanup runs, and t3 may submit something, get the name
\* dialog and join again
InitReconnect == InitLeave

NextReconnect ==
  \/ Quiet /\ Pass
  \/ cleanupStaleParticipants
  \/ connectionLost("t3")
  \/ clientLoader("t3")
  \/ join("t3")
  \/ JoinSteps("t3")
  \/ \E c \in LeaveClients :
       \/ startHeartbeat(c)
       \/ PresenceSteps(c)
       \/ sweep_detect(c)
       \/ onRoomMetadata(c)

\* timers fire, awaited calls return and listeners deliver; the connection
\* need not drop and the user need not submit anything or join again
FairReconnect ==
  /\ SF_vars(Quiet /\ Pass)
  /\ WF_vars(cleanupStaleParticipants)
  /\ WF_vars(JoinSteps("t3"))
  /\ \A c \in LeaveClients :
       /\ WF_vars(startHeartbeat(c))
       /\ WF_vars(PresenceSteps(c))
       /\ WF_vars(sweep_detect(c))
       /\ WF_vars(onRoomMetadata(c))

SpecReconnect == InitReconnect /\ [][NextReconnect]_vars /\ FairReconnect

\* ----------------------------------------------------------------- claims
\* metadata.status, "none" while no room exists
roomStatus == IF Has(metadata, "status") THEN metadata.status ELSE "none"

taskCount == Cardinality(DOMAIN tasks)

StatusTransitions ==
  {<<"none", "lobby">>, <<"lobby", "active">>, <<"active", "results">>,
   <<"results", "active">>, <<"results", "ended">>}

\* C1: the room status only ever changes along lobby->active,
\* active->results, results->active and results->ended (and from no room
\* to lobby at creation); in particular nothing leaves ended.
C1_StatusTransitions ==
  [][roomStatus' # roomStatus => <<roomStatus, roomStatus'>> \in StatusTransitions]_vars

\* C2: current_task_index never decreases and always lies in
\* [0, taskCount), whatever the interleaving of advanceToNextTask calls.
C2_TaskIndex ==
  [][(Exists(metadata) /\ Exists(metadata')) =>
       /\ metadata'.current_task_index >= metadata.current_task_index
       /\ metadata'.current_task_index \in 0..(taskCount' - 1)]_vars

\* the range part of C2 alone
TaskIndexInRange ==
  Exists(metadata) => metadata.current_task_index \in 0..(taskCount - 1)

\* C3: an endRound call that found a current round appends exactly one
\* Completed Round with the round's task_id and started_at and one entry per
\* participant id of the round's estimates, named from the participant
\* records it read ('Unknown' when the record is gone); then it deletes the
\* current round, then it sets the status to results.
C3_EndRound ==
  [][\A c \in Clients :
       /\ endRound_push(c) =>
            /\ Len(completed_rounds') = Len(completed_rounds) + 1
            /\ LET r == loc[c].currentRound
                   ps == loc[c].participants
                   done == completed_rounds'[Len(completed_rounds')]
               IN /\ done.task_id = r.task_id
                  /\ done.started_at = r.started_at
                  /\ DOMAIN Child(done, "estimates") = DOMAIN Child(r, "estimates")
                  /\ \A pid \in DOMAIN Child(r, "estimates") :
                       /\ done.estimates[pid].participant_name =
                            IF Has(ps, pid) THEN ps[pid].name ELSE "Unknown"
                       /\ \A w \in DOMAIN Child(r.estimates[pid], "workstreams") :
                            done.estimates[pid].workstreams[w].workstream_name =
                              IF Has(loc[c].workstreams, w) THEN loc[c].workstreams[w].name
                                                            ELSE "Unknown"
            /\ pc'[c] = "er_remove"
       /\ endRound_remove(c) =>
            /\ current_round' = Absent
            /\ pc'[c] = "us_status"
            /\ loc'[c].status = "results"
       /\ (updateRoomStatus_set(c) /\ loc[c].status = "results") =>
            roomStatus' = "results"]_vars

\* C4: endRound called when no current round exists throws and changes
\* nothing in the store (completed rounds, status and last_activity stay
\* as they were), and the call does nothing after that.
C4_EndRoundNoRound ==
  [][\A c \in Clients :
       (endRound_getRound(c) /\ ~Exists(current_round)) =>
          /\ ret'[c] = "throw"
          /\ pc'[c] = "idle"
          /\ UNCHANGED store]_vars

C4_Witness ==
  /\ ret["t1"] = "throw"
  /\ pc["t1"] = "idle"
  /\ ~Exists(current_round)
  /\ Len(completed_rounds) = 1
  /\ roomStatus = "results"
  /\ metadata.last_activity < now

\* the hooks have seen the store as it is and the effect has run
HooksSettled ==
  /\ ~hooks.stale
  /\ hooks.participants = <<participantList(participants)>>
  /\ hooks.estimates = useEstimates(current_round)

isDone(round, pid) ==
  LET es == Child(round, "estimates")
  IN Has(es, pid) /\ Has(es[pid], "is_done") /\ es[pid].is_done = TRUE

\* C5: useAllParticipantsDone is true exactly when a current round exists,
\* the participant list is non-empty and every current participant p has
\* estimates[p.peer_id].is_done == true; a participant without an entry is
\* not done, and entries of ids that are no participants are ignored.
C5_AllParticipantsDone ==
  HooksSettled =>
    (hooks.allDone <=>
       /\ Exists(current_round)
       /\ Exists(participants)
       /\ \A u \in DOMAIN participants :
            /\ Has(participants[u], "peer_id")
            /\ isDone(current_round, participants[u].peer_id))

C5_Witness ==
  /\ HooksSettled
  /\ hooks.allDone
  /\ DOMAIN Child(current_round, "estimates") \ DOMAIN participants # {}

\* the advanceToNextTask call of c found no next task and is ending the session
AdvanceEnding(c) ==
  /\ pc[c] \in {"us_status", "us_activity"}
  /\ loc[c].then = "handleNextTask"

\* C6: advanceToNextTask that reads current_task_index == taskCount - 1
\* sets status to ended, returns false, and none of its steps changes
\* current_task_index or the current round.
C6_AdvanceAtLastTask ==
  [][\A c \in Clients :
       /\ (advanceToNextTask_getTasks(c) /\ loc[c].currentIndex = taskCount - 1) =>
            /\ AdvanceEnding(c)'
            /\ loc'[c].status = "ended"
            /\ UNCHANGED store
       /\ (AdvanceEnding(c) /\ pc'[c] # pc[c]) =>
            /\ metadata'.current_task_index = metadata.current_task_index
            /\ current_round' = current_round
            /\ (pc[c] = "us_status" => roomStatus' = "ended")
            /\ (pc[c] = "us_activity" => ret'[c] = "false")]_vars

C6_Witness ==
  \E c \in Clients :
     /\ pc[c] = "us_status"
     /\ loc[c].then = "return"
     /\ ret[c] = "false"
     /\ roomStatus = "ended"
     /\ metadata.current_task_index = taskCount - 1
     /\ taskCount > 1
     /\ ~Exists(current_round)

\* C7: advanceToNextTask that reads current_task_index < taskCount - 1
\* writes that index plus one, starts a round (no estimates) for the task
\* whose order is the new index, sets status to active and returns true; it
\* returns false only after it has set status to ended.  Stated step by
\* step over the call of each tab (a step of c is a change of pc[c]).
C7_AdvanceToNextTask ==
  [][\A c \in Organizers :
       pc'[c] # pc[c] =>
         /\ pc[c] = "an_metadata" =>
              loc'[c].currentIndex = metadata.current_task_index
         /\ (pc[c] = "an_tasks" /\ loc[c].currentIndex < taskCount - 1) =>
              /\ pc'[c] = "an_update"
              /\ loc'[c].nextIndex = loc[c].currentIndex + 1
              /\ UNCHANGED store
         /\ pc[c] = "an_update" =>
              /\ metadata'.current_task_index = loc[c].nextIndex
              /\ pc'[c] = "sr_set"
              /\ loc'[c].result = "true"
              /\ tasks[loc'[c].taskId].order = loc[c].nextIndex
         /\ (pc[c] = "sr_set" /\ loc[c].result = "true") =>
              /\ current_round' = [task_id |-> loc[c].taskId, started_at |-> now]
              /\ pc'[c] = "us_status"
              /\ loc'[c].status = "active"
              /\ loc'[c].result = "true"
         /\ (pc[c] = "us_status" /\ loc[c].result = "true") =>
              roomStatus' = "active"
         /\ (pc[c] = "us_activity" /\ loc[c].result = "true") =>
              ret'[c] = "true"
         /\ (pc[c] \in {"an_update", "us_activity"} /\ ret'[c] = "false") =>
              /\ pc[c] = "us_activity"
              /\ loc[c].status = "ended"]_vars

C7_Witness ==
  \E c \in Clients :
     /\ pc[c] = "us_activity"
     /\ loc[c].result = "true"
     /\ roomStatus = "active"
     /\ metadata.current_task_index = 1
     /\ Exists(current_round)
     /\ ~Has(current_round, "estimates")
     /\ tasks[current_round.task_id].order = 1

\* C8: joinRoom returns false and writes nothing when it finds no room or
\* reads the status ended; in every other case it writes the caller's
\* participant record (online, joined_at = last_heartbeat = now), then
\* bumps last_activity and returns true.
C8_JoinRoom ==
  [][\A c \in Clients :
       /\ joinRoom_exists(c) =>
            /\ UNCHANGED store
            /\ IF Exists(metadata)
                 THEN pc'[c] = "jr_metadata"
                 ELSE ret'[c] = "false" /\ pc'[c] = "idle"
       /\ joinRoom_metadata(c) =>
            /\ UNCHANGED store
            /\ IF roomStatus = "ended"
                 THEN ret'[c] = "false" /\ pc'[c] = "idle"
                 ELSE pc'[c] = "jr_set"
       /\ joinRoom_set(c) =>
            /\ Has(participants', UserOf(c))
            /\ participants'[UserOf(c)].peer_id = UserOf(c)
            /\ participants'[UserOf(c)].connection_status = "online"
            /\ participants'[UserOf(c)].joined_at = now
            /\ participants'[UserOf(c)].last_heartbeat = now
            /\ \A u \in DOMAIN participants \ {UserOf(c)} :
                 Has(participants', u) /\ participants'[u] = participants[u]
            /\ pc'[c] = "jr_activity"
       /\ joinRoom_activity(c) =>
            /\ metadata'.last_activity = now
            /\ participants' = participants
            /\ ret'[c] = "true"
            /\ pc'[c] = "idle"
       /\ (pc[c] \in {"jr_exists", "jr_metadata", "jr_set", "jr_activity"}
             /\ pc'[c] = "idle" /\ ret'[c] = "false") =>
            (~Exists(metadata) \/ roomStatus = "ended")]_vars

C8_Witness ==
  /\ ret["t3"] = "false"
  /\ pc["t3"] = "idle"
  /\ roomStatus = "ended"
  /\ ~Has(participants, "u2")
  /\ ret["t1"] = "void"
  /\ Has(participants, "u1")
  /\ participants["u1"].joined_at = 1
  /\ participants["u1"].last_heartbeat = 1

\* C9: createRoom on a code for which a room already exists does not
\* replace that room's metadata, participants, current round or completed
\* rounds.
C9_CreateRoomExisting ==
  [][\A c \in Clients, n \in 1..MaxTasks :
       (Exists(metadata) /\ createRoom(c, <<"be">>, TaskInput(n))) =>
          UNCHANGED <<metadata, participants, current_round, completed_rounds>>]_vars

\* C10: startRound replaces the current round with {task_id, started_at:
\* now} and no estimates, records no Completed Round for a round it
\* replaces, and then sets the status to active.
C10_StartRound ==
  [][\A c \in Clients :
       /\ startRound_set(c) =>
            /\ current_round' = [task_id |-> loc[c].taskId, started_at |-> now]
            /\ ~Has(current_round', "estimates")
            /\ completed_rounds' = completed_rounds
            /\ pc'[c] = "us_status"
            /\ loc'[c].status = "active"
       /\ (updateRoomStatus_set(c) /\ loc[c].status = "active") =>
            roomStatus' = "active"]_vars

C10_Witness ==
  /\ pc["t1"] = "us_status"
  /\ loc["t1"].status = "active"
  /\ roomStatus = "active"
  /\ pc["t3"] = "idle"
  /\ ret["t3"] = "void"
  /\ Exists(current_round)
  /\ ~Has(current_round, "estimates")
  /\ current_round.started_at = 1
  /\ completed_rounds = << >>

\* the estimate values of a round: participant -> workstream -> value
estimateValues(round) ==
  LET es == Child(round, "estimates")
  IN [q \in DOMAIN es |->
        LET wm == Child(es[q], "workstreams")
        IN [x \in DOMAIN wm |-> wm[x].value]]

\* C11: submitEstimate(p, w, v) leaves estimates[p].workstreams[w].value
\* = v (stamped with the time of the write) whatever was there before;
\* submitting a (p, w, v) that the round already holds leaves every
\* estimate value as it was; no other participant's entry, no other
\* workstream of p and neither is_done nor done_at of p changes.
C11_SubmitEstimate ==
  [][\A c \in EstimateClients :
       (pc[c] = "se_set" /\ pc'[c] # pc[c]) =>
         LET p == UserOf(c)
             w == loc[c].workstreamId
             v == loc[c].value
             es == Child(current_round, "estimates")
             esN == Child(current_round', "estimates")
             pe == Child(es, p)
             peN == Child(esN, p)
             wm == Child(pe, "workstreams")
             wmN == Child(peN, "workstreams")
         IN /\ Has(wmN, w)
            /\ wmN[w] = [value |-> v, submitted_at |-> now]
            /\ (Has(wm, w) /\ wm[w].value = v) =>
                 estimateValues(current_round') = estimateValues(current_round)
            /\ DOMAIN esN = DOMAIN es \cup {p}
            /\ \A q \in DOMAIN es \ {p} : esN[q] = es[q]
            /\ DOMAIN wmN = DOMAIN wm \cup {w}
            /\ \A x \in DOMAIN wm \ {w} : wmN[x] = wm[x]
            /\ DOMAIN peN = DOMAIN pe \cup {"workstreams"}
            /\ \A k \in {"is_done", "done_at"} : Has(pe, k) => peN[k] = pe[k]
            /\ current_round'.task_id = current_round.task_id
            /\ current_round'.started_at = current_round.started_at]_vars

\* t1 has just overwritten its frontend estimate at time 1 next to its
\* backend estimate, its done mark and the entry of the other participant
C11_Witness ==
  /\ pc["t1"] = "se_activity"
  /\ loc["t1"].workstreamId = "fe"
  /\ now = 1
  /\ Has(Child(current_round, "estimates"), "u1")
  /\ Has(Child(current_round, "estimates"), "u2")
  /\ LET mine == current_round.estimates["u1"]
     IN /\ Has(mine, "is_done") /\ mine.is_done /\ mine.done_at = 0
        /\ Has(mine, "workstreams")
        /\ DOMAIN mine.workstreams = {"fe", "be"}
        /\ mine.workstreams["fe"] = [value |-> 8, submitted_at |-> 1]
        /\ mine.workstreams["be"] = [value |-> 5, submitted_at |-> 0]
  /\ Has(current_round.estimates["u2"], "workstreams")

\* C12: markParticipantDone(p, true) leaves is_done = true with the one
\* done_at of this call, also when p was done already (the earlier done_at
\* is overwritten); markParticipantDone(p, false) leaves is_done = false
\* and no done_at; p's workstream estimates and every other participant's
\* entry stay as they were.
C12_MarkParticipantDone ==
  [][\A c \in EstimateClients :
       (pc[c] = "md_update" /\ pc'[c] # pc[c]) =>
         LET p == UserOf(c)
             es == Child(current_round, "estimates")
             esN == Child(current_round', "estimates")
             pe == Child(es, p)
             peN == Child(esN, p)
         IN /\ Has(peN, "is_done")
            /\ peN.is_done = loc[c].isDone
            /\ IF loc[c].isDone
                 THEN Has(peN, "done_at") /\ peN.done_at = now
                 ELSE ~Has(peN, "done_at")
            /\ DOMAIN peN \ {"is_done", "done_at"} = DOMAIN pe \ {"is_done", "done_at"}
            /\ Child(peN, "workstreams") = Child(pe, "workstreams")
            /\ DOMAIN esN = DOMAIN es \cup {p}
            /\ \A q \in DOMAIN es \ {p} : esN[q] = es[q]
            /\ current_round'.task_id = current_round.task_id
            /\ current_round'.started_at = current_round.started_at]_vars

\* t1 has marked itself done at time 1 over both of its estimates of time
\* 0, next to the done mark of the other participant
C12_Witness ==
  /\ pc["t1"] = "md_activity"
  /\ loc["t1"].isDone
  /\ now = 1
  /\ Has(Child(current_round, "estimates"), "u1")
  /\ Has(Child(current_round, "estimates"), "u2")
  /\ LET mine == current_round.estimates["u1"]
     IN /\ Has(mine, "is_done") /\ mine.is_done /\ mine.done_at = 1
        /\ Has(mine, "workstreams")
        /\ DOMAIN mine.workstreams = {"fe", "be"}
        /\ \A w \in {"fe", "be"} : mine.workstreams[w].submitted_at = 0
  /\ Has(current_round.estimates["u2"], "is_done")

\* the ids of a list of workstreams or tasks
ids(list) == [i \in DOMAIN list |-> list[i].id]

\* C13: createRoom writes in one step the metadata with status lobby and
\* current_task_index 0 together with the workstreams and the tasks, each
\* with order = its position in the input counted from 0, and the lists
\* that onWorkstreams and onTasks deliver (ascending order) are the inputs
\* in their input order.
C13_CreateRoomRoundTrip ==
  [][\A c \in CreateClients, ws \in WorkstreamOrders, n \in 1..MaxTasks :
       createRoom(c, ws, TaskInput(n)) =>
         /\ metadata'.status = "lobby"
         /\ metadata'.current_task_index = 0
         /\ DOMAIN workstreams' = {ws[i] : i \in DOMAIN ws}
         /\ \A i \in DOMAIN ws : workstreams'[ws[i]].order = i - 1
         /\ DOMAIN tasks' = {TaskInput(n)[i] : i \in 1..n}
         /\ \A i \in 1..n : tasks'[TaskInput(n)[i]].order = i - 1
         /\ ids(onWorkstreams(workstreams')) = ws
         /\ ids(onTasks(tasks')) = TaskInput(n)]_vars

\* a room created at time 1 with three tasks and two workstreams
C13_Witness ==
  /\ \E c \in CreateClients : ret[c] = "void"
  /\ roomStatus = "lobby"
  /\ metadata.current_task_index = 0
  /\ metadata.created_at = 1
  /\ ids(onTasks(tasks)) = <<"C", "B", "A">>
  /\ ids(onWorkstreams(workstreams)) = <<"fe", "be">>
  /\ workstreams["fe"].order = 0
  /\ tasks["A"].order = 2

\* the session is over: one completed round per task in task order, each
\* with the denormalized estimates of every participant, no current round
sessionComplete ==
  /\ roomStatus = "ended"
  /\ ~Exists(current_round)
  /\ Len(completed_rounds) = taskCount
  /\ \A i \in 1..Len(completed_rounds) :
       LET r == completed_rounds[i]
       IN /\ tasks[r.task_id].order = i - 1
          /\ DOMAIN Child(r, "estimates") = Users
          /\ \A c \in FlowClients :
               LET e == r.estimates[UserOf(c)]
               IN /\ e.participant_name = NameOf(UserOf(c))
                  /\ e.is_done = TRUE
                  /\ DOMAIN Child(e, "workstreams") = {"be"}
                  /\ e.workstreams["be"].value = Vote(c)
                  /\ e.workstreams["be"].workstream_name = WorkstreamTitle("be")

\* C14: with one organizer view and joined participants, the run "start
\* the round of the first task; every participant estimates and marks
\* itself done; the round is closed by the auto-end effect;
\* advanceToNextTask", repeated, ends for good with status ended, exactly one
\* Completed Round per task in task order, each with every participant's
\* denormalized estimates, and no current round.
C14_EndToEnd == <>[]sessionComplete

\* three tasks went through their rounds and the last advanceToNextTask
\* has returned
C14_Witness ==
  /\ sessionComplete
  /\ taskCount = 3
  /\ pc["t1"] = "idle"
  /\ ret["t1"] = "false"
  /\ hooks.timers = 0

\* C15: the write of setOrganizer(code, newId, storePrevious) leaves
\* organizer_id = newId; with storePrevious it leaves
\* previous_organizer_id = the organizer id that the write replaced, also
\* when two clients call it concurrently; without storePrevious it leaves
\* previous_organizer_id as it was; the call ends without an error.
C15_SetOrganizer ==
  [][\A c \in OrganizerClients :
       pc'[c] # pc[c] =>
         /\ pc[c] = "so_update" =>
              /\ pc'[c] = "so_activity"
              /\ metadata'.organizer_id = loc[c].newOrganizerId
              /\ IF loc[c].storePrevious
                   THEN metadata'.previous_organizer_id = metadata.organizer_id
                   ELSE Child(metadata', "previous_organizer_id")
                          = Child(metadata, "previous_organizer_id")
                        /\ Has(metadata', "previous_organizer_id")
                             = Has(metadata, "previous_organizer_id")
         /\ pc[c] \in {"so_get", "so_update", "so_activity"} => ret'[c] # "throw"]_vars

\* C16: no step of updatePresence creates a participants/{id} node: before
\* the user has joined and after its record has been removed (cleanup,
\* disconnect hook), a heartbeat adds nothing, in any interleaving.
C16_HeartbeatNeverCreates ==
  [][\A c \in PresenceClients :
       hooks'.presence[c] # hooks.presence[c] =>
         DOMAIN participants' \subseteq DOMAIN participants]_vars
\* the age of a record's heartbeat, for a record that has one
heartbeatAge(p) == now - p.last_heartbeat

\* C17: detectStaleParticipants returns exactly the ids of the participants
\* that have a numeric last_heartbeat with now - last_heartbeat strictly
\* above the threshold: with threshold 6000 a heartbeat 7000 ms old is
\* returned, one 3000 ms or exactly 6000 ms old is not, a participant with no
\* last_heartbeat is never returned, and the call leaves the store as it was
C17_DetectStale ==
  [][(hooks.sweep = Absent /\ hooks'.sweep # Absent) =>
       LET staleIds == hooks'.sweep.staleIds
           threshold == hooks'.sweep.timeoutMs
       IN  /\ store' = store
           /\ staleIds \subseteq DOMAIN participants
           /\ \A id \in DOMAIN participants :
                /\ id \in staleIds <=>
                     /\ Has(participants[id], "last_heartbeat")
                     /\ heartbeatAge(participants[id]) >= threshold + 1
                /\ ~Has(participants[id], "last_heartbeat") => id \notin staleIds
                /\ (threshold = 6000 /\ Has(participants[id], "last_heartbeat")) =>
                     /\ heartbeatAge(participants[id]) = 7000 => id \in staleIds
                     /\ heartbeatAge(participants[id]) \in {3000, 6000} =>
                          id \notin staleIds]_vars

C17_Witness ==
  /\ hooks.sweep # Absent
  /\ hooks.sweep.timeoutMs = 6000
  /\ hooks.sweep.staleIds = {"u1"}
  /\ Has(participants, "u1") /\ Has(participants, "u2")
  /\ Has(participants["u1"], "last_heartbeat")
  /\ heartbeatAge(participants["u1"]) = 7000
  /\ Has(participants["u2"], "last_heartbeat")
  /\ heartbeatAge(participants["u2"]) = 6000
\* the client is no longer in the room and sends no heartbeat
stopped(c) == ~inRoom[c] /\ ~hooks.beating[c] /\ hooks.presence[c] = "idle"

\* C18: a participant whose client has stopped (tab closed or room left) is
\* eventually removed from the participants, by the disconnect hook or by
\* the staleness cleanup, also when it is the organizer that stopped
C18_StoppedRemoved ==
  \A c \in LeaveClients : stopped(c) ~> ~Has(participants, UserOf(c))
alphabetSymbols == {ROOM_CODE_ALPHABET[i] : i \in 1..Len(ROOM_CODE_ALPHABET)}
\* a string of exactly 8 characters, each of them in the alphabet
wellFormedCode(code) ==
  /\ Len(code) = 8
  /\ \A i \in 1..Len(code) : code[i] \in alphabetSymbols
\* the join form has been checked; the generator has returned
codeChecked(c) == Has(loc[c], "roomCode") /\ Has(loc[c], "error")
codeReturned(c) ==
  Has(loc[c], "generated") /\ Len(loc[c].generated) = ROOM_CODE_LENGTH
roomCodeContract ==
  /\ \A c \in Clients :
       codeChecked(c) => (~loc[c].error <=> wellFormedCode(loc[c].roomCode))
  /\ \A c \in Clients :
       codeReturned(c) =>
         /\ wellFormedCode(loc[c].generated)
         /\ isValidRoomCode(loc[c].generated)

\* C19 as stated: isValidRoomCode accepts exactly the strings of length 8
\* with every character in the alphabet, the alphabet has 34 symbols and
\* contains none of 0, O, I and L, and every code createRoomCode returns is
\* such a string
C19_RoomCode_AsStated ==
  /\ roomCodeContract
  /\ Cardinality(alphabetSymbols) = 34
  /\ alphabetSymbols \cap {"0", "O", "I", "L"} = {}

\* C19, amended: isValidRoomCode accepts exactly the strings of length 8
\* with every character in the alphabet, and every code createRoomCode
\* returns is such a string; the alphabet has 33 distinct symbols, the
\* digits 1-9 and the capital letters without O and I: it contains none of
\* 0, O and I, and it does contain L
C19_RoomCode ==
  /\ roomCodeContract
  /\ Len(ROOM_CODE_ALPHABET) = 33
  /\ Cardinality(alphabetSymbols) = 33
  /\ alphabetSymbols \cap {"0", "O", "I"} = {}
  /\ "L" \in alphabetSymbols

\* a typed code of 8 characters with an L is accepted, and a generated code
\* with an L has been returned
C19_Witness ==
  \/ /\ codeChecked("t1")
     /\ ~loc["t1"].error
     /\ \E i \in 1..Len(loc["t1"].roomCode) : loc["t1"].roomCode[i] = "L"
  \/ /\ codeReturned("t1")
     /\ \E i \in 1..ROOM_CODE_LENGTH : loc["t1"].generated[i] = "L"
\* C20: with one organizer client instance a started round produces at most
\* one Completed Round, whatever the timing of the done and un-done toggles,
\* of the auto-end timers and of the End Round button: no two Completed
\* Rounds stem from the same round
C20_OneCompletedRoundPerRound ==
  \A i, j \in 1..Len(completed_rounds) :
    (/\ completed_rounds[i].task_id = completed_rounds[j].task_id
     /\ completed_rounds[i].started_at = completed_rounds[j].started_at) => i = j
\* an endRound call of c has returned or thrown
endRoundOver(c) == pc[c] = "idle" /\ ret[c] \in {"void", "throw"}
\* the endRound calls that have appended their Completed Round
appended == {c \in RaceClients : ret[c] = "void" \/ pc[c] \in {"er_remove", "us_status", "us_activity"}}

\* C21: when two clients run endRound on the same round, every interleaving
\* ends with no current round and status results; each call either appends
\* one Completed Round (so two records of the round are possible) or throws
\* because the round was gone, and a second delete of the round changes
\* nothing
C21_EndRoundRace ==
  /\ Len(completed_rounds) = Cardinality(appended)
  /\ \A i \in 1..Len(completed_rounds) :
       /\ completed_rounds[i].task_id = "A"
       /\ completed_rounds[i].started_at = 0
  /\ \A c \in RaceClients :
       (pc[c] = "idle" /\ ret[c] = "throw") =>
         \E d \in RaceClients \ {c} : d \in appended /\ pc[d] # "er_remove"
  /\ (\A c \in RaceClients : endRoundOver(c)) =>
       /\ current_round = Absent
       /\ roomStatus = "results"
       /\ Len(completed_rounds) \in {1, 2}

\* both calls are over and both have appended
C21_Witness ==
  /\ \A c \in RaceClients : endRoundOver(c) /\ ret[c] = "void"
  /\ Len(completed_rounds) = 2
  /\ current_round = Absent
\* the estimate entries (participant, workstream) and the done marks of a
\* round or of a Completed Round
entriesOf(round) ==
  {e \in Users \X (DOMAIN workstreams \cup {"general"}) :
     Has(Child(Child(Child(round, "estimates"), e[1]), "workstreams"), e[2])}
doneOf(round) ==
  {pid \in DOMAIN Child(round, "estimates") :
     Has(round.estimates[pid], "is_done") /\ round.estimates[pid].is_done}

\* C22: a submitEstimate or markParticipantDone write that lands after
\* endRound has read the current round and before endRound deletes it is
\* dropped without an error: the appended Completed Round holds what
\* endRound read, not what the store holds by then, and the delete removes
\* the current round with the late write in it
C22_LateWriteDropped ==
  [][\A c \in RoundClients :
       /\ (pc[c] = "er_push" /\ pc'[c] = "er_remove") =>
            LET done == completed_rounds'[Len(completed_rounds')]
            IN /\ entriesOf(done) = entriesOf(loc[c].currentRound)
               /\ doneOf(done) = doneOf(loc[c].currentRound)
       /\ (pc[c] = "er_remove" /\ pc'[c] # "er_remove") => current_round' = Absent
       /\ (pc[c] \in {"er_participants", "er_workstreams", "er_push", "er_remove"}
             /\ current_round' # current_round /\ pc'[c] = pc[c]) =>
            \A d \in RoundClients \ {c} : pc'[d] \in {"se_activity", "md_activity"}]_vars

\* the Completed Round is appended without the estimate and the done mark
\* that are in the current round endRound is about to delete
C22_Witness ==
  /\ pc["t1"] = "er_remove"
  /\ Len(completed_rounds) = 1
  /\ <<"u2", selectedWorkstream>> \in entriesOf(current_round) \ entriesOf(completed_rounds[1])
  /\ "u2" \in doneOf(current_round) \ doneOf(completed_rounds[1])
\* a started round in which every participant of the room is marked done
roundAllDone ==
  /\ Has(current_round, "task_id")
  /\ Exists(participants)
  /\ DOMAIN participants \subseteq doneOf(current_round)
\* the organizer's view has submitted end-round
endRoundInvoked ==
  \E s \in Slots : pc[s] \in {"er_round", "er_participants", "er_workstreams", "er_push", "er_remove"}

\* C23: when a round is active, every participant is marked done and stays
\* done and the organizer's client shows the session view, that client
\* eventually invokes endRound and the room reaches status results, with no
\* manual action
C23_AutoEnd ==
  /\ (roomStatus = "active" /\ roundAllDone) ~> endRoundInvoked
  /\ (roomStatus = "active" /\ roundAllDone) ~> (roomStatus = "results")

\* the timer has submitted end-round for a round that is all done
C23_Witness ==
  /\ roomStatus = "active"
  /\ roundAllDone
  /\ pc["t1"] = "er_round"
  /\ hooks.timers = 0
\* C24: the organizer's cleanup deletes a participant only if its heartbeat
\* is more than 6000 ms old at the moment of the deletion, also when a
\* heartbeat lands between the detect read and the cleanup write
C24_SweepOnlyStale ==
  [][(hooks.sweep # Absent /\ hooks'.sweep = Absent) =>
       \A id \in DOMAIN participants \ DOMAIN participants' :
         /\ Has(participants[id], "last_heartbeat")
         /\ now - participants[id].last_heartbeat > 6000]_vars
\* C25: every current_round node in the store is a complete round created
\* by startRound, with a task_id that is the id of one of the room's tasks:
\* a submitEstimate or markParticipantDone that arrives when no round
\* exists does not bring a current round into existence
C25_RoundIsComplete ==
  Exists(current_round) =>
    /\ Has(current_round, "task_id")
    /\ Has(current_round, "started_at")
    /\ current_round.task_id \in DOMAIN tasks
\* no room operation is in flight
quiescent == \A c \in Clients : pc[c] = "idle"

\* C26: whenever no room operation is in flight, a current round exists if
\* and only if the room status is active, for every sequence of startRound,
\* endRound, advanceToNextTask and end-session actions of one or more
\* clients
C26_RoundIffActive ==
  (quiescent /\ Exists(metadata)) => (Exists(current_round) <=> roomStatus = "active")
\* C27: whenever the room is active and no operation is in flight, the
\* current round's task_id is the id of the task whose order equals
\* metadata.current_task_index, also after two advanceToNextTask calls that
\* overlap
C27_RoundTaskIsCurrent ==
  (quiescent /\ roomStatus = "active") =>
    /\ Has(current_round, "task_id")
    /\ Has(tasks, current_round.task_id)
    /\ tasks[current_round.task_id].order = metadata.current_task_index
\* C28: no participant record is ever created in a room whose status is
\* ended, also when the session is ended by another client between
\* joinRoom's status read and its participant write
C28_NoJoinAfterEnd ==
  [][(DOMAIN participants' \ DOMAIN participants # {}) => roomStatus # "ended"]_vars
\* C29: the organizer's automatic close ends a round only when every
\* current participant is done at the moment endRound is invoked: a timer
\* of the auto-end effect that fires after a participant has un-marked done
\* during the debounce does not submit end-round
C29_AutoCloseOnlyWhenDone ==
  [][hooks'.timers < hooks.timers =>
       (\A s \in Slots : pc'[s] = "er_round" /\ pc[s] = "idle" => roundAllDone)]_vars
\* the room content of c is mounted with its heartbeat timer running, and
\* the user of c is not among the participants
missing(c) == inRoom[c] /\ hooks.beating[c] /\ ~Has(participants, UserOf(c))

\* C30: a user who has joined and whose client keeps running is eventually
\* present in the participants again after the disconnect hook or a cleanup
\* has removed the record: the client does not stay in the room view while
\* missing from the participants for ever
C30_PresentAgain ==
  \A c \in LeaveClients :
    missing(c) ~> (Has(participants, UserOf(c)) \/ ~inRoom[c])

====
